---- MODULE Spec2Model ----
(***************************************************************************)
(* Word Copilot: the Session Store (SessionManager), the Chat Transport    *)
(* (sendChat), the Tool Executor (executeToolCalls) and the turn handler   *)
(* of the chat panel (handleSend), modelled from the TypeScript sources.   *)
(***************************************************************************)
EXTENDS Integers, Sequences, FiniteSets, TLC

(***************************************************************************)
(* Program constants                                                       *)
(***************************************************************************)
MAX_SESSIONS == 20
MAX_MESSAGES_PER_SESSION == 50

\* activeSessionId: string | null = null; ids are modelled as positive integers
NULL == 0

(***************************************************************************)
(* Bounds of the model                                                     *)
(***************************************************************************)
\* how many operations (calls on the SessionManager, ticks of the clock) a run makes
\* after the constructor
MaxOps == 3

StartTime == 1
\* ids generateSessionId returns are FirstNewId, FirstNewId + 1, ...
FirstNewId == 100
\* an id that names no session ("invalid-id" of the tests)
UnknownId == 99
\* content serial of the first message appended in a run
FirstNewMessage == 1000

Undefined == "undefined"

VARIABLES
  sessions,         \* SessionManager.sessions: the Map in insertion order, a sequence of Session records
  activeSessionId,  \* SessionManager.activeSessionId
  lsSessions,       \* localStorage["word_copilot_sessions"]
  lsActive,         \* localStorage["word_copilot_active_session"] (NULL when absent)
  lsFault,          \* "none" | "full" (setItem throws) | "denied" (getItem and setItem throw)
  now,              \* Date.now()
  nextId,           \* next value of generateSessionId
  nextMsg,          \* next message content / generateMessageId
  ops,              \* how many operations the run has made
  ret,              \* the last operation, its argument and what it returned
  appended,         \* history: per session id, everything appended since creation or the last clear
  savesOk           \* history: no saveToStorage has failed so far

storeVars == <<sessions, activeSessionId, lsSessions, lsActive, lsFault, now,
               nextId, nextMsg, ops, ret, appended, savesOk>>

VARIABLES
  pc,            \* where sendChat is: "idle", "fetch1", "delay", "fetch2", "body", "done"
  params,        \* SendChatParams of the call
  requestBody,   \* the body handed to fetch: its messages and whether it has tools
  pruned,        \* let pruned
  requestChars,  \* let requestChars
  timer,         \* the timeout of createTimeoutController: "unset", "armed", "fired", "cleared"
  timedOut,      \* let timedOut of createTimeoutController
  aborted,       \* controller.signal.aborted
  listener,      \* onAbort is registered on external.signal
  extAborted,    \* externalController.signal.aborted
  fetchCount,    \* how many times fetch has been called
  attempts,      \* history: how each fetch call ended, with didTimeout() and signal.aborted then
  response,      \* let response: the Response fetch resolved with, its body not read yet
  abortedBy,     \* history: who called controller.abort() first: "none", "timeout", "external"
  result         \* the ChatResult returned (NoResult before)

chatVars == <<pc, params, requestBody, pruned, requestChars, timer, timedOut, aborted,
              listener, extAborted, fetchCount, attempts, response, abortedBy, result>>

VARIABLES
  epc,           \* where executeToolCalls is: "idle", "loop", "adapter", "returned"
  callList,      \* toolCalls: the ToolCall list of the batch
  results,       \* const results: ToolResult[]
  adapterLog     \* history: the Document Adapter operations since the turn began, their starts and ends in order

VARIABLES
  wpc,           \* where replaceSelection is: "idle", "read", "switch", "select", "insert", "restore", "done"
  wordDoc,       \* context.document: its changeTrackingMode and the text of the selection
  bridge         \* the locals of replaceSelection, how its promise settled, and history of the call

bridgeVars == <<wpc, wordDoc, bridge>>

VARIABLES
  built          \* the arguments of a buildUserMessage call and the message it returned

builderVars == <<built>>

\* the state of the Tool Executor and of the helpers below it
execVars == <<epc, callList, results, adapterLog, bridgeVars, builderVars>>

VARIABLES
  tpc,                 \* where handleSend is: "idle", "context", "chat", "tools"
  stage,               \* the sendChat call awaited: "auto", "noTools", "required"
  userInput,           \* const userInput, as the two regular expressions see it
  turnMessage,         \* let message: the assistant message of the response
  isLoading,           \* the isLoading state
  rendered,            \* isLoading as the handlers of the last render see it
  sendInProgressRef,   \* sendInProgressRef.current
  requestIdRef,        \* requestIdRef.current
  activeRequestIdRef,  \* activeRequestIdRef.current (NULL for null)
  abortControllerRef,  \* abortControllerRef.current: NULL, or the request id it was made for
  turn                 \* history: what the turn in flight, or the last turn, did

turnVars == <<tpc, stage, userInput, turnMessage, isLoading, rendered, sendInProgressRef,
              requestIdRef, activeRequestIdRef, abortControllerRef, turn>>

vars == <<storeVars, chatVars, execVars, turnVars>>

(***************************************************************************)
(* Helpers: Array and Map of JavaScript                                    *)
(***************************************************************************)
\* Array.prototype.slice(-n)
SliceLast(s, n) == IF Len(s) > n THEN SubSeq(s, Len(s) - n + 1, Len(s)) ELSE s

\* Map.prototype.has / get / set / delete on the insertion-ordered sequence
MapHas(ss, id) == \E i \in 1..Len(ss) : ss[i].id = id
MapIndex(ss, id) == CHOOSE i \in 1..Len(ss) : ss[i].id = id
MapGet(ss, id) == ss[MapIndex(ss, id)]
MapSet(ss, s) ==
  IF MapHas(ss, s.id) THEN [ss EXCEPT ![MapIndex(ss, s.id)] = s] ELSE Append(ss, s)
MapDelete(ss, id) == SelectSeq(ss, LAMBDA s : s.id # id)
MapIds(ss) == {ss[i].id : i \in 1..Len(ss)}

\* Array.prototype.sort((a, b) => b.updatedAt - a.updatedAt): stable, newest first
RECURSIVE InsertSorted(_, _)
InsertSorted(sorted, s) ==
  IF sorted = <<>> THEN <<s>>
  ELSE IF sorted[Len(sorted)].updatedAt >= s.updatedAt THEN Append(sorted, s)
  ELSE Append(InsertSorted(SubSeq(sorted, 1, Len(sorted) - 1), s), sorted[Len(sorted)])

RECURSIVE SortNewestFirst(_)
SortNewestFirst(ss) ==
  IF ss = <<>> THEN <<>>
  ELSE InsertSorted(SortNewestFirst(SubSeq(ss, 1, Len(ss) - 1)), ss[Len(ss)])

(***************************************************************************)
(* JSON.stringify / JSON.parse of the session list                         *)
(***************************************************************************)
\* JSON.stringify leaves out the properties whose value is undefined
\* (toolCalls and isError of a DisplayMessage are optional)
JsonObject(o) ==
  [f \in {g \in DOMAIN o : ~(g \in {"toolCalls", "isError"} /\ o[g] = Undefined)} |-> o[f]]

JsonSession(s) ==
  [s EXCEPT !.displayMessages = [i \in 1..Len(s.displayMessages) |-> JsonObject(s.displayMessages[i])]]

JsonStringify(ss) == [kind |-> "json", items |-> [i \in 1..Len(ss) |-> JsonSession(ss[i])]]

\* a property read: undefined when the object does not have it
Prop(o, f) == IF f \in DOMAIN o THEN o[f] ELSE Undefined

JsonNull == [jsonNull |-> TRUE]
NoData == [kind |-> "null"]
Garbage == [kind |-> "garbage"]

(***************************************************************************)
(* SessionManager: the operations, as functions of the store value so that *)
(* one operation can call another (createSession calls deleteSession,      *)
(* every mutator calls saveToStorage)                                      *)
(***************************************************************************)
\* the manager's fields and the two storage keys, with the savesOk history flag
Store(ss, a, d, k, ok) ==
  [sessions |-> ss, activeSessionId |-> a, lsSessions |-> d, lsActive |-> k, savesOk |-> ok]

\* generateSessionName(): a name derived from the current date and time
generateSessionName(t) == "chat (date)"

\* saveToStorage without the write of the active session id
saveToStorageSessionsOnly(m, fault) ==
  IF fault # "none" THEN [m EXCEPT !.savesOk = FALSE]
  ELSE [m EXCEPT !.lsSessions = JsonStringify(m.sessions)]

\* localStorage.setItem throws when the storage is full or denied; the catch only warns
saveToStorage(m, fault) ==
  IF fault # "none" THEN [m EXCEPT !.savesOk = FALSE]
  ELSE [m EXCEPT !.lsSessions = JsonStringify(m.sessions),
                 !.lsActive = IF m.activeSessionId # NULL THEN m.activeSessionId ELSE @]

getSessionList(ss) == SortNewestFirst(ss)

\* this.sessions.values().next().value after a delete: the first remaining session
FirstRemaining(rest) == IF rest # <<>> THEN rest[1].id ELSE NULL

\* the session the size > 1 branch of deleteSession leaves behind
DeleteFromMap(ss, sessionId) == MapDelete(ss, sessionId)

\* ClearLast with the display history forgotten
ClearLastMessagesOnly(s, t) == [s EXCEPT !.messages = <<>>, !.updatedAt = t]

\* the branch of deleteSession taken for the last remaining session
ClearLast(s, t) == [s EXCEPT !.messages = <<>>, !.displayMessages = <<>>, !.updatedAt = t]

deleteSession(m, sessionId, t, fault) ==
  IF Len(m.sessions) <= 1
  THEN IF MapHas(m.sessions, sessionId)
       THEN [store |-> saveToStorage(
                         [m EXCEPT !.sessions = MapSet(@, ClearLast(MapGet(m.sessions, sessionId), t))],
                         fault),
             value |-> FALSE]
       ELSE [store |-> m, value |-> FALSE]
  ELSE LET deleted == MapHas(m.sessions, sessionId)
           rest == DeleteFromMap(m.sessions, sessionId)
           active == IF deleted /\ m.activeSessionId = sessionId
                     THEN FirstRemaining(rest) ELSE m.activeSessionId
       IN [store |-> saveToStorage([m EXCEPT !.sessions = rest, !.activeSessionId = active], fault),
           value |-> deleted]

\* Oldest with index 0 for index size - 1: the most recently updated session
OldestFirstOfList(ss) == getSessionList(ss)[1]

\* const oldest = this.getSessionList()[this.sessions.size - 1] (0-based)
Oldest(ss) == getSessionList(ss)[Len(ss)]

\* the size test of createSession
OverLimit(ss) == Len(ss) > MAX_SESSIONS

createSession(m, name, id, t, fault) ==
  LET session == [id |-> id,
                  name |-> IF name # Undefined /\ name # "" THEN name ELSE generateSessionName(t),
                  createdAt |-> t, updatedAt |-> t,
                  messages |-> <<>>, displayMessages |-> <<>>]
      m1 == [m EXCEPT !.sessions = MapSet(@, session), !.activeSessionId = id]
      m2 == IF OverLimit(m1.sessions)
            THEN deleteSession(m1, Oldest(m1.sessions).id, t, fault).store
            ELSE m1
  IN [store |-> saveToStorage(m2, fault), value |-> id]

\* getActiveSession without the fallback to the first session
getActiveSessionNoFallback(m) ==
  [store |-> m,
   value |-> IF m.activeSessionId # NULL /\ MapHas(m.sessions, m.activeSessionId)
             THEN m.activeSessionId ELSE NULL]

getActiveSession(m) ==
  LET a == IF m.activeSessionId = NULL /\ m.sessions # <<>>
           THEN m.sessions[1].id ELSE m.activeSessionId
  IN [store |-> [m EXCEPT !.activeSessionId = a],
      value |-> IF a # NULL /\ MapHas(m.sessions, a) THEN a ELSE NULL]

\* setActiveSession without the test of the id
setActiveSessionAnyId(m, sessionId, fault) ==
  [store |-> saveToStorage([m EXCEPT !.activeSessionId = sessionId], fault), value |-> sessionId]

setActiveSession(m, sessionId, fault) ==
  IF MapHas(m.sessions, sessionId)
  THEN [store |-> saveToStorage([m EXCEPT !.activeSessionId = sessionId], fault), value |-> sessionId]
  ELSE [store |-> m, value |-> NULL]

\* String.prototype.trim on the names the model uses
Trim(str) == IF str = "  " THEN "" ELSE str

renameSession(m, sessionId, newName, t, fault) ==
  IF MapHas(m.sessions, sessionId)
  THEN LET s == MapGet(m.sessions, sessionId)
           s2 == [s EXCEPT !.name = IF Trim(newName) # "" THEN Trim(newName) ELSE s.name,
                           !.updatedAt = t]
       IN [store |-> saveToStorage([m EXCEPT !.sessions = MapSet(@, s2)], fault), value |-> TRUE]
  ELSE [store |-> m, value |-> FALSE]

\* PushLimited with slice(0, MAX) for slice(-MAX): keeps the oldest entries
PushLimitedKeepOldest(history, entry) ==
  LET pushed == Append(history, entry)
  IN IF Len(pushed) > MAX_MESSAGES_PER_SESSION
     THEN SubSeq(pushed, 1, MAX_MESSAGES_PER_SESSION) ELSE pushed

\* push, then slice(-MAX_MESSAGES_PER_SESSION) when the history is over the limit
PushLimited(history, entry) ==
  LET pushed == Append(history, entry)
  IN IF Len(pushed) > MAX_MESSAGES_PER_SESSION
     THEN SliceLast(pushed, MAX_MESSAGES_PER_SESSION) ELSE pushed

addMessage(m, message, t, fault) ==
  LET g == getActiveSession(m)
  IN IF g.value = NULL THEN g.store
     ELSE LET s == MapGet(g.store.sessions, g.value)
              s2 == [s EXCEPT !.messages = PushLimited(@, message), !.updatedAt = t]
          IN saveToStorage([g.store EXCEPT !.sessions = MapSet(@, s2)], fault)

addDisplayMessage(m, msg, t, fault) ==
  LET g == getActiveSession(m)
  IN IF g.value = NULL THEN g.store
     ELSE LET s == MapGet(g.store.sessions, g.value)
              s2 == [s EXCEPT !.displayMessages = PushLimited(@, msg), !.updatedAt = t]
          IN saveToStorage([g.store EXCEPT !.sessions = MapSet(@, s2)], fault)

clearActiveSession(m, t, fault) ==
  LET g == getActiveSession(m)
  IN IF g.value = NULL THEN g.store
     ELSE LET s == MapGet(g.store.sessions, g.value)
          IN saveToStorage([g.store EXCEPT !.sessions = MapSet(@, ClearLast(s, t))], fault)

getMessages(m) ==
  LET g == getActiveSession(m)
  IN IF g.value = NULL THEN <<>> ELSE MapGet(m.sessions, g.value).messages

getDisplayMessages(m) ==
  LET g == getActiveSession(m)
  IN IF g.value = NULL THEN <<>> ELSE MapGet(m.sessions, g.value).displayMessages

\* sessions.forEach((s) => this.sessions.set(s.id, s)): reading s.id of null throws,
\* the sessions set before it stay in the map
RECURSIVE forEachSet(_, _)
forEachSet(items, acc) ==
  IF items = <<>> THEN [sessions |-> acc, threw |-> FALSE]
  ELSE IF "jsonNull" \in DOMAIN Head(items) THEN [sessions |-> acc, threw |-> TRUE]
  ELSE forEachSet(Tail(items), MapSet(acc, Head(items)))

\* what the try block of loadFromStorage does before it reaches, or throws to, createSession
TryLoad(d, k, fault) ==
  IF fault = "denied" THEN [sessions |-> <<>>, activeSessionId |-> NULL, threw |-> TRUE]
  ELSE IF d.kind = "garbage" THEN [sessions |-> <<>>, activeSessionId |-> NULL, threw |-> TRUE]
  ELSE IF d.kind = "object" THEN [sessions |-> <<>>, activeSessionId |-> NULL, threw |-> TRUE]
  ELSE LET l == IF d.kind = "json" THEN forEachSet(d.items, <<>>)
                ELSE [sessions |-> <<>>, threw |-> FALSE]
       IN [sessions |-> l.sessions,
           activeSessionId |-> IF ~l.threw /\ k # NULL /\ MapHas(l.sessions, k) THEN k ELSE NULL,
           threw |-> l.threw]

\* LoadCreates with a catch block that only warns
LoadCreatesNotInCatch(l) == ~l.threw /\ Len(l.sessions) = 0

\* whether the constructor ends in createSession
LoadCreates(l) == l.threw \/ Len(l.sessions) = 0

\* new SessionManager(): loadFromStorage on empty fields
loadFromStorage(d, k, fault, id, t) ==
  LET l == TryLoad(d, k, fault)
      m == Store(l.sessions, l.activeSessionId, d, k, TRUE)
  IN IF LoadCreates(l) THEN createSession(m, Undefined, id, t, fault).store ELSE m

(***************************************************************************)
(* What localStorage holds when the add-in starts                          *)
(***************************************************************************)
ChatMsg(n) == [role |-> "user", content |-> n]

\* a DisplayMessage as addDisplayMessage builds it
DisplayMsg(n, role, toolCalls, isError, t) ==
  [id |-> n, role |-> role, content |-> n, timestamp |-> t,
   toolCalls |-> toolCalls, isError |-> isError]

\* a session record as an earlier run wrote it: n messages, dn display messages
SavedSession(i, t, n, dn) ==
  [id |-> i, name |-> "saved", createdAt |-> 0, updatedAt |-> t,
   messages |-> [j \in 1..n |-> ChatMsg(j)],
   displayMessages |-> [j \in 1..dn |-> JsonObject(DisplayMsg(j, "user", Undefined, Undefined, 0))]]

SavedList(items) == [kind |-> "json", items |-> items]

\* The snapshots the model starts from: nothing stored, unparseable text, a JSON
\* value that is no array, an array with a null entry, and lists an earlier run
\* wrote (one session one append short of the history limit, full lists of
\* sessions updated in the same millisecond or at different times).
Snapshots ==
  { [data |-> NoData, active |-> NULL],
    [data |-> Garbage, active |-> 1],
    [data |-> [kind |-> "object"], active |-> NULL],
    [data |-> SavedList(<<SavedSession(1, 0, 0, 0), JsonNull, SavedSession(2, 0, 0, 0)>>), active |-> 1],
    [data |-> SavedList(<<SavedSession(1, 0, MAX_MESSAGES_PER_SESSION - 1, MAX_MESSAGES_PER_SESSION)>>),
     active |-> 1],
    [data |-> SavedList(<<SavedSession(1, 0, 1, 0), SavedSession(2, StartTime, 0, 1)>>),
     active |-> UnknownId],
    [data |-> SavedList([i \in 1..(MAX_SESSIONS - 1) |-> SavedSession(i, StartTime, 0, 0)]),
     active |-> 2],
    [data |-> SavedList([i \in 1..MAX_SESSIONS |-> SavedSession(i, StartTime, 0, 0)]),
     active |-> NULL],
    [data |-> SavedList([i \in 1..MAX_SESSIONS |->
                           SavedSession(i, IF i \in {2, 7} THEN 0 ELSE StartTime, 0, 0)]),
     active |-> 1] }

Faults == {"none", "full", "denied"}

(***************************************************************************)
(* State, initial state                                                    *)
(***************************************************************************)
EmptyLog == [messages |-> <<>>, displayMessages |-> <<>>]

\* the append history of the sessions of ss: kept from base, empty for a new session
Logs(ss, base) ==
  [i \in MapIds(ss) |-> IF i \in DOMAIN base THEN base[i] ELSE EmptyLog]

\* the append history a freshly loaded store starts with: what it loaded
LoadedLogs(ss) ==
  [i \in MapIds(ss) |-> [messages |-> MapGet(ss, i).messages,
                         displayMessages |-> MapGet(ss, i).displayMessages]]

Cur == Store(sessions, activeSessionId, lsSessions, lsActive, savesOk)

\* what reading the session list gave the constructor
ReadKind(d, fault) == IF fault = "denied" THEN "throws" ELSE d.kind

\* the record of a call: the operation, its id argument, whether it reported success,
\* the session id it returned, and what the store was when it was called (its size,
\* whether id named a session, whether that session was the active one)
Ret(op, id, ok, sid) ==
  [op |-> op, id |-> id, ok |-> ok, sid |-> sid,
   sizeBefore |-> Len(sessions),
   existed |-> MapHas(sessions, id),
   wasActive |-> id # NULL /\ getActiveSession(Cur).value = id,
   hadHistory |-> MapHas(sessions, id) /\ MapGet(sessions, id).messages # <<>>
                    /\ MapGet(sessions, id).displayMessages # <<>>,
   src |-> IF op = "constructor" THEN ReadKind(lsSessions, lsFault) ELSE ""]

Commit(m) ==
  /\ sessions' = m.sessions
  /\ activeSessionId' = m.activeSessionId
  /\ lsSessions' = m.lsSessions
  /\ lsActive' = m.lsActive
  /\ savesOk' = m.savesOk

\* the id arguments the operations are called with
IdInputs == {UnknownId, 1, 2} \cup (FirstNewId..(nextId - 1))

\* one more operation, within the bound
Step ==
  /\ ops < MaxOps
  /\ ops' = ops + 1

\* the state after new SessionManager() over one of the snapshots snaps, with the
\* storage in one of the conditions faults
InitStoreFrom(snaps, faults) ==
  /\ now = StartTime
  /\ ops = 0
  /\ nextMsg = FirstNewMessage
  /\ lsFault \in faults
  /\ \E snap \in snaps :
       LET m == loadFromStorage(snap.data, snap.active, lsFault, FirstNewId, StartTime)
       IN /\ sessions = m.sessions
          /\ activeSessionId = m.activeSessionId
          /\ lsSessions = m.lsSessions
          /\ lsActive = m.lsActive
          /\ savesOk = m.savesOk
          /\ nextId = IF MapHas(m.sessions, FirstNewId) THEN FirstNewId + 1 ELSE FirstNewId
          /\ appended = LoadedLogs(m.sessions)
          /\ ret = [op |-> "constructor", id |-> NULL,
                    ok |-> LoadCreates(TryLoad(snap.data, snap.active, lsFault)),
                    sid |-> IF MapHas(m.sessions, FirstNewId) THEN FirstNewId ELSE NULL,
                    sizeBefore |-> 0, existed |-> FALSE, wasActive |-> FALSE,
                    hadHistory |-> FALSE,
                    src |-> ReadKind(snap.data, lsFault)]

InitStore == InitStoreFrom(Snapshots, Faults)

(***************************************************************************)
(* Actions of the Session Store                                            *)
(***************************************************************************)
\* resetSessionManager(): a new SessionManager over the same localStorage
Construct ==
  LET m == loadFromStorage(lsSessions, lsActive, lsFault, nextId, now)
      created == LoadCreates(TryLoad(lsSessions, lsActive, lsFault))
  IN /\ Step
     /\ Commit(m)
     /\ nextId' = IF created THEN nextId + 1 ELSE nextId
     /\ appended' = LoadedLogs(m.sessions)
     /\ ret' = Ret("constructor", NULL, created, IF created THEN nextId ELSE NULL)
     /\ UNCHANGED <<chatVars, execVars, turnVars>>
     /\ UNCHANGED <<lsFault, now, nextMsg>>

CreateSession(name) ==
  LET r == createSession(Cur, name, nextId, now, lsFault)
  IN /\ Step
     /\ Commit(r.store)
     /\ nextId' = nextId + 1
     /\ appended' = Logs(r.store.sessions, appended)
     /\ ret' = Ret("createSession", NULL, TRUE, r.value)
     /\ UNCHANGED <<chatVars, execVars, turnVars>>
     /\ UNCHANGED <<lsFault, now, nextMsg>>

DeleteSession(id) ==
  LET r == deleteSession(Cur, id, now, lsFault)
      cleared == Len(sessions) <= 1 /\ MapHas(sessions, id)
  IN /\ Step
     /\ Commit(r.store)
     /\ appended' = Logs(r.store.sessions, IF cleared THEN [appended EXCEPT ![id] = EmptyLog] ELSE appended)
     /\ ret' = Ret("deleteSession", id, r.value, NULL)
     /\ UNCHANGED <<chatVars, execVars, turnVars>>
     /\ UNCHANGED <<lsFault, now, nextId, nextMsg>>

SetActiveSession(id) ==
  LET r == setActiveSession(Cur, id, lsFault)
  IN /\ Step
     /\ Commit(r.store)
     /\ ret' = Ret("setActiveSession", id, r.value # NULL, r.value)
     /\ UNCHANGED <<chatVars, execVars, turnVars>>
     /\ UNCHANGED <<lsFault, now, nextId, nextMsg, appended>>

RenameSession(id, newName) ==
  LET r == renameSession(Cur, id, newName, now, lsFault)
  IN /\ Step
     /\ Commit(r.store)
     /\ ret' = Ret("renameSession", id, r.value, NULL)
     /\ UNCHANGED <<chatVars, execVars, turnVars>>
     /\ UNCHANGED <<lsFault, now, nextId, nextMsg, appended>>

GetActiveSession ==
  LET r == getActiveSession(Cur)
  IN /\ Step
     /\ Commit(r.store)
     /\ ret' = Ret("getActiveSession", NULL, r.value # NULL, r.value)
     /\ UNCHANGED <<chatVars, execVars, turnVars>>
     /\ UNCHANGED <<lsFault, now, nextId, nextMsg, appended>>

AddMessage ==
  LET message == ChatMsg(nextMsg)
      target == getActiveSession(Cur).value
      m == addMessage(Cur, message, now, lsFault)
  IN /\ Step
     /\ Commit(m)
     /\ nextMsg' = nextMsg + 1
     /\ appended' = IF target = NULL THEN appended
                    ELSE [appended EXCEPT ![target].messages = Append(@, message)]
     /\ ret' = Ret("addMessage", target, target # NULL, NULL)
     /\ UNCHANGED <<chatVars, execVars, turnVars>>
     /\ UNCHANGED <<lsFault, now, nextId>>

AddDisplayMessage(role, toolCalls, isError) ==
  LET msg == DisplayMsg(nextMsg, role, toolCalls, isError, now)
      target == getActiveSession(Cur).value
      m == addDisplayMessage(Cur, msg, now, lsFault)
  IN /\ Step
     /\ Commit(m)
     /\ nextMsg' = nextMsg + 1
     /\ appended' = IF target = NULL THEN appended
                    ELSE [appended EXCEPT ![target].displayMessages = Append(@, msg)]
     /\ ret' = Ret("addDisplayMessage", target, target # NULL, nextMsg)
     /\ UNCHANGED <<chatVars, execVars, turnVars>>
     /\ UNCHANGED <<lsFault, now, nextId>>

ClearActiveSession ==
  LET target == getActiveSession(Cur).value
      m == clearActiveSession(Cur, now, lsFault)
  IN /\ Step
     /\ Commit(m)
     /\ appended' = IF target = NULL THEN appended ELSE [appended EXCEPT ![target] = EmptyLog]
     /\ ret' = Ret("clearActiveSession", target, target # NULL, NULL)
     /\ UNCHANGED <<chatVars, execVars, turnVars>>
     /\ UNCHANGED <<lsFault, now, nextId, nextMsg>>

\* the clock advances
Tick ==
  /\ Step
  /\ now' = now + 1
  /\ ret' = Ret("tick", NULL, TRUE, NULL)
  /\ UNCHANGED <<chatVars, execVars, turnVars>>
  /\ UNCHANGED <<sessions, activeSessionId, lsSessions, lsActive, lsFault, nextId, nextMsg,
                 appended, savesOk>>

NextStore ==
  \/ Construct
  \/ \E name \in {Undefined, "A"} : CreateSession(name)
  \/ \E id \in IdInputs : DeleteSession(id)
  \/ \E id \in IdInputs : SetActiveSession(id)
  \/ \E id \in IdInputs, newName \in {"  ", "B"} : RenameSession(id, newName)
  \/ GetActiveSession
  \/ AddMessage
  \/ \E d \in {<<"user", Undefined, Undefined>>, <<"tool_result", "calls", "true">>} :
       AddDisplayMessage(d[1], d[2], d[3])
  \/ ClearActiveSession
  \/ Tick

(***************************************************************************)
(* Properties of the Session Store                                         *)
(***************************************************************************)
\* the session getActiveSession() returns in the current state (NULL for null)
Active == getActiveSession(Cur).value

\* C1: the store always holds at least one session; deleteSession(id) called when
\* id is the only session keeps it, empties its messages and its displayMessages
\* and returns false.
C1_AtLeastOneSession ==
  /\ Len(sessions) >= 1
  /\ (ret.op = "deleteSession" /\ ret.sizeBefore = 1 /\ ret.existed) =>
       /\ MapIds(sessions) = {ret.id}
       /\ Len(sessions) = 1
       /\ sessions[1].messages = <<>>
       /\ sessions[1].displayMessages = <<>>
       /\ ret.ok = FALSE

\* deleteSession was called on the only session, which had messages and display
\* messages, and left it in the store, empty
C1_Witness ==
  /\ ret.op = "deleteSession" /\ ret.sizeBefore = 1 /\ ret.existed /\ ret.hadHistory
  /\ MapIds(sessions) = {ret.id}
  /\ sessions[1].messages = <<>>
  /\ ret.ok = FALSE

\* C2: the messages of a session are exactly the last min(n, 50) of the n messages
\* appended to it since it was created or cleared, oldest first; the same holds for
\* its display messages with their own count; getMessages() and getDisplayMessages()
\* return these for the active session.
C2_HistoryIsLastFifty ==
  /\ \A i \in 1..Len(sessions) :
       LET log == appended[sessions[i].id]
           n == Len(log.messages)
           dn == Len(log.displayMessages)
       IN /\ Len(sessions[i].messages) = (IF n < 50 THEN n ELSE 50)
          /\ \A j \in 1..Len(sessions[i].messages) :
               sessions[i].messages[j] = log.messages[n - Len(sessions[i].messages) + j]
          /\ Len(sessions[i].displayMessages) = (IF dn < 50 THEN dn ELSE 50)
          /\ \A j \in 1..Len(sessions[i].displayMessages) :
               sessions[i].displayMessages[j]
                 = log.displayMessages[dn - Len(sessions[i].displayMessages) + j]
  /\ Active # NULL =>
       /\ getMessages(Cur) = MapGet(sessions, Active).messages
       /\ getDisplayMessages(Cur) = MapGet(sessions, Active).displayMessages

\* 51 messages were appended to a session whose display history has 50 or fewer
C2_Witness ==
  \E i \in 1..Len(sessions) :
    /\ Len(appended[sessions[i].id].messages) = 51
    /\ Len(appended[sessions[i].id].displayMessages) = 50
    /\ ret.op = "addMessage"

\* 52 display messages were appended to a session with 49 messages
C2_WitnessDisplay ==
  \E i \in 1..Len(sessions) :
    /\ Len(appended[sessions[i].id].displayMessages) = 52
    /\ Len(appended[sessions[i].id].messages) = 49

\* C3: right after createSession returns, the session it returned is in the store
\* and getActiveSession() returns it.
C3_CreatedIsActive ==
  ret.op = "createSession" => (MapHas(sessions, ret.sid) /\ Active = ret.sid)

\* createSession returned while the store held 20 sessions before the call
C3_Witness == ret.op = "createSession" /\ ret.sizeBefore = MAX_SESSIONS

\* C4: the store never holds more than 20 sessions; a createSession that raises
\* the count to 21 evicts exactly one session, one whose updatedAt is the smallest
\* among the 21 (the new session, stamped with the current time, included).
C4_EvictsLeastRecentlyUpdated ==
  /\ [](Len(sessions) <= 20)
  /\ [][(ret'.op = "createSession" /\ Len(sessions) = 20) =>
          LET stamp == [i \in MapIds(sessions) \cup {ret'.sid} |->
                          IF i = ret'.sid THEN now ELSE MapGet(sessions, i).updatedAt]
              evicted == DOMAIN stamp \ MapIds(sessions')
          IN /\ Cardinality(evicted) = 1
             /\ Len(sessions') = 20
             /\ \A e \in evicted : \A i \in DOMAIN stamp : stamp[e] <= stamp[i]
       ]_storeVars

\* createSession was called on a store of 20 sessions with different update times
\* and evicted a session that was not the new one
C4_Witness ==
  /\ ret.op = "createSession" /\ ret.sizeBefore = 20
  /\ Len(sessions) = 20
  /\ MapHas(sessions, ret.sid)
  /\ \E i, j \in 1..Len(sessions) : sessions[i].updatedAt < sessions[j].updatedAt

\* C5: getActiveSession() always returns a session of the store; deleteSession(id)
\* of a session of a store with more than one session removes it and returns true,
\* and when it was the active session a remaining session is active afterwards.
C5_ActiveIsInStore ==
  /\ Active \in MapIds(sessions)
  /\ (ret.op = "deleteSession" /\ ret.sizeBefore > 1 /\ ret.existed) =>
       /\ ~MapHas(sessions, ret.id)
       /\ Len(sessions) = ret.sizeBefore - 1
       /\ ret.ok = TRUE
       /\ ret.wasActive => (Active \in MapIds(sessions) /\ Active # ret.id)

\* the active session of a store of several sessions was deleted
C5_Witness ==
  /\ ret.op = "deleteSession" /\ ret.sizeBefore > 1 /\ ret.existed /\ ret.wasActive
  /\ ret.ok = TRUE

\* two messages, or two display messages, as the program reads them
SameObject(a, b, fields) == \A f \in fields : Prop(a, f) = Prop(b, f)

SameHistory(xs, ys, fields) ==
  /\ Len(xs) = Len(ys)
  /\ \A j \in 1..Len(xs) : SameObject(xs[j], ys[j], fields)

ChatFields == {"role", "content"}
DisplayFields == {"id", "role", "content", "timestamp", "toolCalls", "isError"}

\* C6: while the storage writes succeed, a SessionManager constructed from the two
\* stored keys has the same sessions, each with the same messages and display
\* messages, and the same active session as the store in memory.
C6_RoundTrip ==
  savesOk =>
    LET m == loadFromStorage(lsSessions, lsActive, "none", nextId, now)
    IN /\ MapIds(m.sessions) = MapIds(sessions)
       /\ \A id \in MapIds(sessions) :
            LET a == MapGet(sessions, id)
                b == MapGet(m.sessions, id)
            IN /\ a.name = b.name
               /\ a.updatedAt = b.updatedAt
               /\ SameHistory(a.messages, b.messages, ChatFields)
               /\ SameHistory(a.displayMessages, b.displayMessages, DisplayFields)
       /\ getActiveSession(m).value = Active

\* a store of several sessions was saved after a display message with undefined
\* optional fields was appended, and the active session is not the first one
C6_Witness ==
  /\ savesOk /\ ops >= 2
  /\ Len(sessions) > 1
  /\ Active # sessions[1].id
  /\ \E j \in 1..Len(MapGet(sessions, Active).displayMessages) :
       /\ MapGet(sessions, Active).displayMessages[j].id >= FirstNewMessage
       /\ MapGet(sessions, Active).displayMessages[j].isError = Undefined

\* C7: a SessionManager constructed when the stored session list is unparseable, or
\* when reading the storage throws, holds one freshly created session with empty
\* histories, which is the active session.
C7_CorruptStorageFallsBack ==
  (ret.op = "constructor" /\ ret.src \in {"garbage", "throws"}) =>
    /\ Len(sessions) = 1
    /\ sessions[1].id = ret.sid
    /\ ret.sid >= FirstNewId
    /\ sessions[1].messages = <<>>
    /\ sessions[1].displayMessages = <<>>
    /\ Active = ret.sid

\* the constructor ran on unparseable stored text
C7_Witness ==
  /\ ret.op = "constructor" /\ ret.src = "garbage"
  /\ Len(sessions) = 1

\* the constructor ran while reading the storage threw, over a stored list of sessions
C7_WitnessReadThrows ==
  /\ ret.op = "constructor" /\ ret.src = "throws"
  /\ lsSessions.kind = "json"
  /\ Len(sessions) = 1

(***************************************************************************)
(* Chat Transport: sendChat                                                *)
(***************************************************************************)
MAX_REQUEST_BODY_CHARS == 220000

\* how many messages the caller passes at most
MaxMessages == 4

\* JSON.stringify(message).length of a short and of a long message
SmallMessage == 1000
LargeMessage == 120000
\* JSON.stringify(requestBody).length without its messages and tools
BodyChars == 80
\* JSON.stringify of the four tool definitions, with the tool_choice field
ToolsChars == 3000

NoResult == [success |-> FALSE, error |-> "(pending)"]
Failure(error) == [success |-> FALSE, error |-> error]
Success(message) == [success |-> TRUE, error |-> "", message |-> message]

\* the error texts; the Chinese ones are given by their meaning
ErrBaseUrl == "Base URL is not configured"
ErrApiKey == "API Key is not configured"
ErrModel == "Model is not configured"
ErrTooLarge == "request too long (about N KB), likely to fail in the Office browser"
ErrTimeout == "request timed out, split the task or reduce the context"
ErrTimedOutPlain == "Request timed out"
ErrCancelled == "request cancelled"
ErrNetworkDetail == "network request failed (message), check the Base URL (host)"
ErrNetworkPlain == "Network error: message"
ErrNoChoices == "No response from model"
\* errorData.error.message of an error body, one that quotes the code 400, the raw
\* text of a body that is no JSON, and the text with the status of an empty body
ErrHttpMessage == "this model does not support tools"
ErrHttpMessage400 == "Error code: 400 - tools are not supported"
ErrHttpText == "Bad Gateway"
ErrStatus(status) == "API request failed with status " \o ToString(status)

\* ValidateConfig without the check of the model
ValidateConfigNoModel(config) ==
  IF config.baseUrl = "" THEN ErrBaseUrl
  ELSE IF config.apiKey = "" THEN ErrApiKey
  ELSE ""

\* if (!config.baseUrl) ... if (!config.apiKey) ... if (!config.model): "" when complete
ValidateConfig(config) ==
  IF config.baseUrl = "" THEN ErrBaseUrl
  ELSE IF config.apiKey = "" THEN ErrApiKey
  ELSE IF config.model = "" THEN ErrModel
  ELSE ""

RECURSIVE SumSizes(_)
SumSizes(msgs) == IF msgs = <<>> THEN 0 ELSE Head(msgs).size + SumSizes(Tail(msgs))

\* estimateChars({...requestBody, messages}): the length of the JSON text
estimateChars(hasTools, msgs) ==
  BodyChars + (IF hasTools THEN ToolsChars ELSE 0) + SumSizes(msgs)
    + (IF Len(msgs) > 1 THEN Len(msgs) - 1 ELSE 0)

\* MustPrune with length > 2 for length > 3
MustPruneToTwo(chars, msgs) == chars > MAX_REQUEST_BODY_CHARS /\ Len(msgs) > 2

\* the condition of the pruning loop
MustPrune(chars, msgs) == chars > MAX_REQUEST_BODY_CHARS /\ Len(msgs) > 3

\* DropOldest with the newest message dropped in place of the oldest
DropNewest(msgs) == SubSeq(msgs, 1, Len(msgs) - 1)

\* prunedMessages = [prunedMessages[0], ...prunedMessages.slice(2)]
DropOldest(msgs) == <<msgs[1]>> \o SubSeq(msgs, 3, Len(msgs))

RECURSIVE PruneLoop(_, _)
PruneLoop(hasTools, msgs) ==
  IF MustPrune(estimateChars(hasTools, msgs), msgs)
  THEN PruneLoop(hasTools, DropOldest(msgs))
  ELSE msgs

\* if (requestChars > MAX_REQUEST_BODY_CHARS) return the too-large failure
TooLarge(chars) == chars > MAX_REQUEST_BODY_CHARS

\* msg.includes("Load failed") || msg.includes("Failed to fetch") || msg.includes("NetworkError")
Transient(msg) ==
  msg \in {"Load failed", "Failed to fetch", "NetworkError when attempting to fetch resource."}

\* ShouldRetry without the test of the error message
ShouldRetryAnyError(err, didTimeout, signalAborted) == ~didTimeout /\ ~signalAborted

\* whether the first catch retries
ShouldRetry(err, didTimeout, signalAborted) ==
  ~didTimeout /\ ~signalAborted /\ Transient(err.message)

\* the outer catch block: the ChatResult for a thrown error
CatchResult(err, didTimeout, useExternalController) ==
  IF didTimeout THEN Failure(ErrTimeout)
  ELSE IF err.name = "AbortError"
       THEN (IF useExternalController THEN Failure(ErrCancelled) ELSE Failure(ErrTimedOutPlain))
  ELSE IF err.message = "Load failed" \/ err.message = "Failed to fetch"
       THEN Failure(ErrNetworkDetail)
  ELSE Failure(ErrNetworkPlain)

\* what fetch rejects with: a TypeError of the network layer, or the AbortError of an
\* aborted signal (some WebViews reject with TypeError("Load failed") on abort too)
NetworkErrors ==
  { [name |-> "TypeError", message |-> m] :
      m \in {"Load failed", "Failed to fetch",
             "NetworkError when attempting to fetch resource.", "cancelled by the host"} }
AbortError == [name |-> "AbortError", message |-> "The operation was aborted."]
Rejections(signalAborted) ==
  IF signalAborted THEN {AbortError, [name |-> "TypeError", message |-> "Load failed"]}
  ELSE NetworkErrors

\* the assistant message of a response: whether it has text, and its tool calls
AssistantMessage(hasText, calls) ==
  [role |-> "assistant", content |-> hasText, tool_calls |-> calls]

\* what fetch resolves with: the status, and what reading the body gives
Responses ==
  { [status |-> 200, body |-> "choices", message |-> AssistantMessage(TRUE, <<>>)],
    [status |-> 200, body |-> "no choices"],
    [status |-> 200, body |-> "not json"],
    [status |-> 400, body |-> "error json"], [status |-> 400, body |-> "empty"],
    [status |-> 401, body |-> "empty"],
    [status |-> 500, body |-> "error json 400"], [status |-> 500, body |-> "text"] }

\* lines 234-254: the error text of a response that is not OK: the message of the
\* JSON error body, else the raw text, else the text with the status
HttpError(resp) ==
  IF resp.body = "error json" THEN ErrHttpMessage
  ELSE IF resp.body = "error json 400" THEN ErrHttpMessage400
  ELSE IF resp.body = "text" THEN ErrHttpText
  ELSE ErrStatus(resp.status)

\* lines 233-276: the ChatResult for a response
ResponseResult(resp) ==
  IF resp.status < 200 \/ resp.status > 299 THEN Failure(HttpError(resp))
  ELSE IF resp.body = "not json"
       THEN CatchResult([name |-> "SyntaxError", message |-> "Unexpected token"], timedOut,
                        params.external # "none")
  ELSE IF resp.body = "no choices" THEN Failure(ErrNoChoices)
  ELSE Success(resp.message)

\* the message lists a caller passes: alternating user and assistant messages,
\* each short or long
MessageLists ==
  UNION { { [i \in 1..k |-> [role |-> IF i % 2 = 1 THEN "user" ELSE "assistant",
                             n |-> i, size |-> f[i]]] :
              f \in [1..k -> {SmallMessage, LargeMessage}] } : k \in 0..MaxMessages }

Configs == [baseUrl : {"", "https://api.example.com"}, apiKey : {"", "key"}, model : {"", "m"}]

\* abortController of the call: none, one that is not aborted, one already aborted
Externals == {"none", "live", "aborted"}

ParamsSet == [config : Configs, messages : MessageLists, tools : BOOLEAN, external : Externals]

SystemMessage == [role |-> "system", n |-> 0, size |-> SmallMessage]

NoResponse == [status |-> 0, body |-> "none"]

InitChat ==
  /\ pc = "idle"
  /\ params = [config |-> [baseUrl |-> "", apiKey |-> "", model |-> ""], messages |-> <<>>,
               tools |-> FALSE, external |-> "none"]
  /\ requestBody = [messages |-> <<>>, tools |-> FALSE]
  /\ pruned = FALSE
  /\ requestChars = 0
  /\ timer = "unset"
  /\ timedOut = FALSE
  /\ aborted = FALSE
  /\ listener = FALSE
  /\ extAborted = FALSE
  /\ fetchCount = 0
  /\ attempts = <<>>
  /\ response = NoResponse
  /\ abortedBy = "none"
  /\ result = NoResult

\* sendChat from its call to its first await: validation, the request body, the
\* timeout controller, the payload guard and the first call of fetch
SendChatCall(p) ==
  /\ params' = p
  /\ extAborted' = (p.external = "aborted")
  /\ attempts' = <<>>
  /\ response' = NoResponse
  /\ IF ValidateConfig(p.config) # ""
     THEN /\ result' = Failure(ValidateConfig(p.config))
          /\ pc' = "done"
          /\ requestBody' = [messages |-> <<>>, tools |-> FALSE]
          /\ pruned' = FALSE
          /\ requestChars' = 0
          /\ timer' = "unset"
          /\ timedOut' = FALSE
          /\ aborted' = FALSE
          /\ listener' = FALSE
          /\ fetchCount' = 0
          /\ abortedBy' = "none"
     ELSE LET fullMessages == <<SystemMessage>> \o p.messages
              prunedMessages == PruneLoop(p.tools, fullMessages)
              chars == estimateChars(p.tools, prunedMessages)
          IN /\ requestBody' = [messages |-> prunedMessages, tools |-> p.tools]
             /\ pruned' = (prunedMessages # fullMessages)
             /\ requestChars' = chars
             /\ timedOut' = FALSE
             \* attachExternal: an aborted external signal aborts at once
             /\ aborted' = (p.external = "aborted")
             /\ abortedBy' = IF p.external = "aborted" THEN "external" ELSE "none"
             /\ IF TooLarge(chars)
                THEN /\ timer' = "cleared"
                     /\ listener' = FALSE
                     /\ result' = Failure(ErrTooLarge)
                     /\ pc' = "done"
                     /\ fetchCount' = 0
                ELSE /\ timer' = "armed"
                     /\ listener' = (p.external = "live")
                     /\ result' = NoResult
                     /\ pc' = "fetch1"
                     /\ fetchCount' = 1

\* a sendChat call of a caller that is no part of the model
SendChat(p) ==
  /\ pc = "idle"
  /\ SendChatCall(p)
  /\ UNCHANGED <<storeVars, execVars, turnVars>>

\* an assistant message with tool calls, and the tool message of one of its results
CallingMessage(size, ids) ==
  [role |-> "assistant", n |-> 0, size |-> size, tool_calls |-> ids]
ToolMessage(id, size) == [role |-> "tool", n |-> id, size |-> size, tool_call_id |-> id]

\* the calls of continueWithToolResults: a conversation of at most one message, an
\* assistant message with one or two tool calls, and one result for each call
Continuations ==
  { [messages |-> msgs, assistantMessage |-> CallingMessage(size, [i \in 1..k |-> i]),
     toolResults |-> [i \in 1..k |-> [toolCallId |-> i, size |-> f[i]]]] :
      msgs \in {<<>>, <<[role |-> "user", n |-> 1, size |-> SmallMessage]>>},
      size \in {SmallMessage, LargeMessage},
      f \in [1..2 -> {SmallMessage, LargeMessage}], k \in 1..2 }

\* continueWithToolResults(params, assistantMessage, toolResults): sendChat with the
\* assistant message and one tool message per result appended to params.messages
ContinueWithToolResults(p, assistantMessage, toolResults) ==
  /\ pc = "idle"
  /\ SendChatCall([p EXCEPT !.messages =
        @ \o <<assistantMessage>>
          \o [i \in 1..Len(toolResults) |->
                ToolMessage(toolResults[i].toolCallId, toolResults[i].size)]])
  /\ UNCHANGED <<storeVars, execVars, turnVars>>

\* fetch has been called and its signal is aborted: the promise is rejected within
\* the task that aborted, and the catch block runs before any timer or click task
RejectionPending == aborted /\ pc \in {"fetch1", "fetch2"}

\* the timeout callback: timedOut = true; controller.abort()
TimeoutFires ==
  /\ timer = "armed"
  /\ ~RejectionPending
  /\ timer' = "fired"
  /\ timedOut' = TRUE
  /\ aborted' = TRUE
  /\ abortedBy' = IF aborted THEN abortedBy ELSE "timeout"
  /\ UNCHANGED <<storeVars, execVars, turnVars>>
  /\ UNCHANGED <<pc, params, requestBody, pruned, requestChars, listener, extAborted,
                 fetchCount, attempts, response, result>>

\* external.abort(): onAbort aborts the request while it is registered
AbortExternal ==
  /\ extAborted' = TRUE
  /\ aborted' = (aborted \/ listener)
  /\ abortedBy' = IF listener /\ ~aborted THEN "external" ELSE abortedBy
  /\ listener' = FALSE
  /\ UNCHANGED <<pc, params, requestBody, pruned, requestChars, timer, timedOut,
                 fetchCount, attempts, response, result>>

\* the caller aborts its AbortController during the call or after it
ExternalAbort ==
  /\ pc \in {"fetch1", "delay", "fetch2", "body", "done"}
  /\ params.external = "live"
  /\ ~extAborted
  /\ ~RejectionPending
  /\ AbortExternal
  /\ UNCHANGED <<storeVars, execVars, turnVars>>

\* clearTimeout(timeoutId); detachExternal()
Cleanup ==
  /\ timer' = IF timer = "armed" THEN "cleared" ELSE timer
  /\ listener' = FALSE

Outcome(kind, what) ==
  [kind |-> kind, what |-> what, didTimeout |-> timedOut, signalAborted |-> aborted]

\* fetch resolves with a response (it does not once the signal is aborted); lines
\* 230-231 clear the timeout and detach the caller's controller before the body is read
FetchResolves(resp) ==
  /\ pc \in {"fetch1", "fetch2"}
  /\ ~aborted
  /\ attempts' = Append(attempts, Outcome("response", resp))
  /\ Cleanup
  /\ response' = resp
  /\ pc' = "body"
  /\ UNCHANGED <<storeVars, execVars, turnVars>>
  /\ UNCHANGED <<params, requestBody, pruned, requestChars, timedOut, aborted, extAborted,
                 fetchCount, abortedBy, result>>

\* await response.text() / await response.json() is over: sendChat returns
BodyRead ==
  /\ pc = "body"
  /\ result' = ResponseResult(response)
  /\ pc' = "done"
  /\ UNCHANGED <<storeVars, execVars, turnVars>>
  /\ UNCHANGED <<params, requestBody, pruned, requestChars, timer, timedOut, aborted,
                 listener, extAborted, fetchCount, attempts, response, abortedBy>>

\* the first fetch rejects: retry after 500 ms, or rethrow to the outer catch
FirstFetchRejects(err) ==
  /\ pc = "fetch1"
  /\ err \in Rejections(aborted)
  /\ attempts' = Append(attempts, Outcome("threw", err))
  /\ IF ShouldRetry(err, timedOut, aborted)
     THEN /\ pc' = "delay"
          /\ UNCHANGED <<timer, listener, result>>
     ELSE /\ Cleanup
          /\ result' = CatchResult(err, timedOut, params.external # "none")
          /\ pc' = "done"
  /\ UNCHANGED <<storeVars, execVars, turnVars>>
  /\ UNCHANGED <<params, requestBody, pruned, requestChars, timedOut, aborted, extAborted,
                 fetchCount, response, abortedBy>>

\* the 500 ms are over: response = await doFetch()
Retry ==
  /\ pc = "delay"
  /\ fetchCount' = fetchCount + 1
  /\ pc' = "fetch2"
  /\ UNCHANGED <<storeVars, execVars, turnVars>>
  /\ UNCHANGED <<params, requestBody, pruned, requestChars, timer, timedOut, aborted,
                 listener, extAborted, attempts, response, abortedBy, result>>

\* the retry rejects: the outer catch
RetryRejects(err) ==
  /\ pc = "fetch2"
  /\ err \in Rejections(aborted)
  /\ attempts' = Append(attempts, Outcome("threw", err))
  /\ Cleanup
  /\ result' = CatchResult(err, timedOut, params.external # "none")
  /\ pc' = "done"
  /\ UNCHANGED <<storeVars, execVars, turnVars>>
  /\ UNCHANGED <<params, requestBody, pruned, requestChars, timedOut, aborted, extAborted,
                 fetchCount, response, abortedBy>>

\* what happens to a sendChat call once it has been made
ChatProgress(responses, errors) ==
  \/ TimeoutFires
  \/ \E resp \in responses : FetchResolves(resp)
  \/ BodyRead
  \/ \E err \in errors : FirstFetchRejects(err)
  \/ Retry
  \/ \E err \in errors : RetryRejects(err)

NextChat ==
  \/ \E p \in ParamsSet : SendChat(p)
  \/ \E c \in Continuations :
       ContinueWithToolResults([config |-> [baseUrl |-> "https://api.example.com",
                                            apiKey |-> "key", model |-> "m"],
                                messages |-> c.messages, tools |-> TRUE, external |-> "none"],
                               c.assistantMessage, c.toolResults)
  \/ ExternalAbort
  \/ ChatProgress(Responses, NetworkErrors \cup {AbortError})

(***************************************************************************)
(* Properties of the Chat Transport                                        *)
(***************************************************************************)
\* the fields of the config of the call that are empty, and the failure naming each
MissingFields == {f \in {"baseUrl", "apiKey", "model"} : params.config[f] = ""}
MissingError(f) ==
  IF f = "baseUrl" THEN ErrBaseUrl ELSE IF f = "apiKey" THEN ErrApiKey ELSE ErrModel

\* C8: a sendChat call whose config has an empty baseUrl, apiKey or model returns a
\* failure naming a missing field, without calling fetch and without starting the
\* timeout timer.
C8_MissingConfigNoNetwork ==
  (pc # "idle" /\ MissingFields # {}) =>
    /\ pc = "done"
    /\ result.success = FALSE
    /\ \E f \in MissingFields : result.error = MissingError(f)
    /\ fetchCount = 0
    /\ timer = "unset"
    /\ attempts = <<>>

\* sendChat returned for a config whose only empty field is the model
C8_Witness ==
  /\ pc = "done"
  /\ MissingFields = {"model"}
  /\ params.messages # <<>>
  /\ result = Failure(ErrModel)

\* the system message and the last two messages of a list
KeepThree(msgs) ==
  IF Len(msgs) > 3 THEN <<msgs[1]>> \o SubSeq(msgs, Len(msgs) - 1, Len(msgs)) ELSE msgs

\* C9: when the request is still estimated over 220,000 characters with all but 3
\* messages dropped (or with its 3 or fewer messages), sendChat returns the
\* payload-too-large failure and never calls fetch.
C9_TooLargeNoNetwork ==
  /\ (pc # "idle" /\ MissingFields = {}
        /\ estimateChars(params.tools, KeepThree(<<SystemMessage>> \o params.messages)) > 220000) =>
       /\ pc = "done"
       /\ result = Failure(ErrTooLarge)
       /\ fetchCount = 0
  /\ (pc # "idle" /\ MissingFields = {} /\ requestChars > 220000
        /\ Len(requestBody.messages) <= 3) =>
       /\ pc = "done"
       /\ result = Failure(ErrTooLarge)
       /\ fetchCount = 0

\* sendChat pruned a list of five messages down to three and still failed
C9_Witness ==
  /\ pc = "done"
  /\ result = Failure(ErrTooLarge)
  /\ Len(params.messages) = 4
  /\ pruned
  /\ Len(requestBody.messages) = 3
  /\ fetchCount = 0

\* the failures of the network-error kind
NetworkFailures == {Failure(ErrNetworkDetail), Failure(ErrNetworkPlain)}

\* at most two fetch calls, the second only after a first that threw a transient
\* error with neither the timeout fired nor the signal aborted, never after a response
RetryRule ==
  /\ fetchCount <= 2
  /\ Len(attempts) <= fetchCount
  /\ fetchCount = 2 =>
       /\ Len(attempts) >= 1
       /\ attempts[1].kind = "threw"
       /\ attempts[1].what.message \in
            {"Load failed", "Failed to fetch", "NetworkError when attempting to fetch resource."}
       /\ ~attempts[1].didTimeout
       /\ ~attempts[1].signalAborted
  /\ (Len(attempts) >= 1 /\ attempts[1].kind = "response") => fetchCount = 1

\* C10 as stated: the retry rule, and whenever the retry throws the result is a
\* network-error failure.
C10_RetryThrowIsNetworkError ==
  /\ RetryRule
  /\ (pc = "done" /\ Len(attempts) = 2 /\ attempts[2].kind = "threw") =>
       result \in NetworkFailures

\* C10 as amended: the retry rule, and when the retry throws the result is a
\* failure, which is a network-error failure unless the timeout has fired or the
\* retry rejected with an AbortError (then it is a timeout or cancelled failure).
C10_RetryOnce ==
  /\ RetryRule
  /\ (pc = "done" /\ Len(attempts) = 2 /\ attempts[2].kind = "threw") =>
       /\ result.success = FALSE
       /\ IF attempts[2].didTimeout THEN result = Failure(ErrTimeout)
          ELSE IF attempts[2].what.name = "AbortError"
               THEN result \in {Failure(ErrCancelled), Failure(ErrTimedOutPlain)}
          ELSE result \in NetworkFailures

\* both fetch calls threw "Failed to fetch" and sendChat returned the network error
C10_Witness ==
  /\ pc = "done"
  /\ fetchCount = 2
  /\ Len(attempts) = 2
  /\ attempts[1].what = [name |-> "TypeError", message |-> "Failed to fetch"]
  /\ attempts[2].what = [name |-> "TypeError", message |-> "Failed to fetch"]
  /\ result = Failure(ErrNetworkDetail)

\* the last fetch call of the sendChat call threw while the signal was aborted
AbortCaught ==
  /\ pc = "done"
  /\ Len(attempts) >= 1
  /\ attempts[Len(attempts)].kind = "threw"
  /\ attempts[Len(attempts)].signalAborted

\* C11: when a sendChat request is aborted, the returned error is the user-cancelled
\* message if the caller's cancellation handle aborted it and a timeout message if
\* the timeout timer did, under every interleaving of the timer, the handle and
\* the handling of the rejection.
C11_AbortNamesItsInitiator ==
  AbortCaught =>
    /\ abortedBy = "external" => result = Failure(ErrCancelled)
    /\ abortedBy = "timeout" => result \in {Failure(ErrTimeout), Failure(ErrTimedOutPlain)}

\* the caller aborted the request during the 500 ms before the retry, the timeout
\* fired next, and the retry rejected with the AbortError
C11_Witness ==
  /\ AbortCaught
  /\ abortedBy = "external"
  /\ Len(attempts) = 2
  /\ ~attempts[1].signalAborted
  /\ attempts[2].what = AbortError
  /\ attempts[2].didTimeout

(***************************************************************************)
(* Tool Executor: executeToolCalls                                         *)
(***************************************************************************)
\* how many tool calls a batch has at most
MaxCalls == 3

\* the id of the first tool call of a batch ("call_..." of the backend); call i has
\* the id FirstCallId + i
FirstCallId == 200

RegisteredTools ==
  {"replace_selection", "insert_text", "delete_selection", "add_comment_to_selection"}

\* const validPositions
ValidPositions == {"before_selection", "after_selection", "document_start", "document_end"}

\* fn.arguments: text that is no JSON, the JSON text null, or a JSON object with
\* some of content, position and comment
Args(json, content, position, comment) ==
  [json |-> json, content |-> content, position |-> position, comment |-> comment]

NotJson == Args("error", FALSE, Undefined, FALSE)
JsonNullArgs == Args("null", FALSE, Undefined, FALSE)
EmptyArgs == Args("object", FALSE, Undefined, FALSE)
FullArgs == Args("object", TRUE, "document_end", TRUE)
BadPositionArgs == Args("object", TRUE, "middle", TRUE)

\* the calls the batches are made of: a name with an argument payload
CallSamples ==
  { [name |-> "replace_selection", args |-> FullArgs],
    [name |-> "replace_selection", args |-> EmptyArgs],
    [name |-> "replace_selection", args |-> NotJson],
    [name |-> "insert_text", args |-> FullArgs],
    [name |-> "insert_text", args |-> BadPositionArgs],
    [name |-> "insert_text", args |-> Args("object", FALSE, "document_end", FALSE)],
    [name |-> "insert_text", args |-> Args("object", TRUE, Undefined, FALSE)],
    [name |-> "delete_selection", args |-> EmptyArgs],
    [name |-> "delete_selection", args |-> NotJson],
    [name |-> "delete_selection", args |-> JsonNullArgs],
    [name |-> "add_comment_to_selection", args |-> FullArgs],
    [name |-> "add_comment_to_selection", args |-> Args("object", TRUE, Undefined, FALSE)],
    [name |-> "add_comment_to_selection", args |-> JsonNullArgs],
    [name |-> "format_selection", args |-> FullArgs] }

ToolCall(i, sample) == [id |-> FirstCallId + i, name |-> sample.name, args |-> sample.args]

\* the batches of at most n calls
Batches(n) ==
  UNION { { [i \in 1..k |-> ToolCall(i, f[i])] : f \in [1..k -> CallSamples] } : k \in 0..n }

ErrParse == "Failed to parse tool arguments"
ErrNullArgs == "TypeError: cannot read properties of null"
ErrReplaceArgs == "replace_selection requires content parameter"
ErrInsertArgs == "insert_text requires position and content parameters"
ErrPosition == "Invalid insert position"
ErrCommentArgs == "add_comment_to_selection requires comment parameter"
ErrUnknownTool == "Unknown tool"
ErrAdapter == "the Word API call failed"

\* parseToolArgs and the checks of the arguments, lines 41-96: the error thrown
\* before the Document Adapter is called, "" when the call reaches the adapter
\* without the check of the insert position
ArgumentErrorAnyPosition(call) ==
  IF call.name \notin RegisteredTools THEN ErrUnknownTool
  ELSE IF call.args.json = "error" THEN ErrParse
  ELSE IF call.name = "delete_selection" THEN ""
  ELSE IF call.args.json = "null" THEN ErrNullArgs
  ELSE IF call.name = "replace_selection"
       THEN (IF ~call.args.content THEN ErrReplaceArgs ELSE "")
  ELSE IF call.name = "insert_text"
       THEN (IF call.args.position = Undefined \/ ~call.args.content THEN ErrInsertArgs ELSE "")
  ELSE IF ~call.args.comment THEN ErrCommentArgs ELSE ""

\* parseToolArgs and the checks of the arguments, lines 41-96 and 105-112: the error
\* of the call before the Document Adapter is called, "" when it reaches the adapter
ArgumentError(call) ==
  IF call.name \notin RegisteredTools THEN ErrUnknownTool
  ELSE IF call.args.json = "error" THEN ErrParse
  ELSE IF call.name = "delete_selection" THEN ""
  ELSE IF call.args.json = "null" THEN ErrNullArgs
  ELSE IF call.name = "replace_selection"
       THEN (IF ~call.args.content THEN ErrReplaceArgs ELSE "")
  ELSE IF call.name = "insert_text"
       THEN (IF call.args.position = Undefined \/ ~call.args.content THEN ErrInsertArgs
             ELSE IF call.args.position \notin ValidPositions THEN ErrPosition
             ELSE "")
  ELSE IF ~call.args.comment THEN ErrCommentArgs ELSE ""

\* the ToolResult of a call: success, or the failure of the catch block / default case
\* with the index of the call in place of its id
ToolResultByIndex(call, i, error) ==
  [toolCallId |-> i, name |-> call.name, success |-> error = "", error |-> error]

\* the ToolResult of a call: success, or the failure of the catch block / default case
ToolResult(call, i, error) ==
  [toolCallId |-> call.id, name |-> call.name, success |-> error = "", error |-> error]

\* what follows the adapter operation of a call: delete_selection reads args.comment
\* after deleteSelection(), which throws when the arguments are the JSON null
AfterAdapter(call, adapterError) ==
  IF adapterError # "" THEN adapterError
  ELSE IF call.name = "delete_selection" /\ call.args.json = "null" THEN ErrNullArgs
  ELSE ""

\* the loop of executeToolCalls goes on although the await of a call is pending
AwaitedNever(e) == e \in {"loop", "adapter"}

\* for (const toolCall of toolCalls) { const result = await executeSingleToolCall(toolCall)
\* the loop goes on when the call it awaited has settled
Awaited(e) == e = "loop"

\* the index of the call the loop takes next
NextCall == Len(results) + (IF epc = "adapter" THEN 1 ELSE 0) + 1

InitExec ==
  /\ epc = "idle"
  /\ callList = <<>>
  /\ results = <<>>
  /\ adapterLog = <<>>

\* executeToolCalls(toolCalls) is called
ExecuteCall(batch) ==
  /\ callList' = batch
  /\ results' = <<>>
  /\ epc' = "loop"
  /\ UNCHANGED <<adapterLog, bridgeVars, builderVars>>

ExecuteToolCalls(batch) ==
  /\ epc = "idle"
  /\ ExecuteCall(batch)
  /\ UNCHANGED <<storeVars, chatVars, turnVars>>

\* executeSingleToolCall up to its await: a call with an argument error gets its
\* failure result, another call starts its Document Adapter operation
ExecuteSingleToolCall ==
  /\ Awaited(epc)
  /\ NextCall <= Len(callList)
  /\ LET call == callList[NextCall]
     IN IF ArgumentError(call) # ""
        THEN /\ results' = Append(results, ToolResult(call, NextCall, ArgumentError(call)))
             /\ UNCHANGED <<epc, adapterLog>>
        ELSE /\ adapterLog' = Append(adapterLog, [call |-> call.id, op |-> call.name, ev |-> "start"])
             /\ epc' = "adapter"
             /\ UNCHANGED results
  /\ UNCHANGED <<callList, bridgeVars, builderVars>>
  /\ UNCHANGED <<storeVars, chatVars, turnVars>>

\* the Document Adapter operation of the call settles: Word.run resolves or rejects
AdapterSettles(adapterError) ==
  /\ epc = "adapter"
  /\ LET i == Len(results) + 1
         call == callList[i]
     IN /\ adapterLog' = Append(adapterLog, [call |-> call.id, op |-> call.name,
                                             ev |-> IF adapterError = "" THEN "done" ELSE "failed"])
        /\ results' = Append(results, ToolResult(call, i, AfterAdapter(call, adapterError)))
  /\ epc' = "loop"
  /\ UNCHANGED <<callList, bridgeVars, builderVars>>
  /\ UNCHANGED <<storeVars, chatVars, turnVars>>

\* return results
ExecuteReturns ==
  /\ epc = "loop"
  /\ Len(results) = Len(callList)
  /\ epc' = "returned"
  /\ UNCHANGED <<callList, results, adapterLog, bridgeVars, builderVars>>
  /\ UNCHANGED <<storeVars, chatVars, turnVars>>

ExecProgress ==
  \/ ExecuteSingleToolCall
  \/ \E e \in {"", ErrAdapter} : AdapterSettles(e)

NextExec ==
  \/ \E batch \in Batches(MaxCalls) : ExecuteToolCalls(batch)
  \/ ExecProgress
  \/ ExecuteReturns

(***************************************************************************)
(* Claims about the Tool Executor                                          *)
(***************************************************************************)
\* the events of the adapter log that belong to the call with this id
EventsOf(id) == SelectSeq(adapterLog, LAMBDA e : e.call = id)

\* the outcome the call had on its own: its argument error, or how its own Document
\* Adapter operation settled
OwnOutcome(call) ==
  IF EventsOf(call.id) = <<>> THEN "rejected"
  ELSE IF Len(EventsOf(call.id)) = 2 /\ EventsOf(call.id)[2].ev = "done"
            /\ ~(call.name = "delete_selection" /\ call.args.json = "null")
       THEN "applied"
  ELSE "adapter failed"

\* C13: executeToolCalls returns one ToolResult per tool call, result i with the id and
\* the name of call i; a call that fails does not throw and does not keep the later
\* calls from running: every call that passes its argument checks has its own adapter
\* operation started and settled, and its result is a success exactly when that
\* operation was applied. While the batch runs there are never more results than calls.
C13_OneResultPerCall ==
  /\ Len(results) <= Len(callList)
  /\ \A i \in 1..Len(results) : results[i].toolCallId = callList[i].id
  /\ epc = "returned" =>
       /\ Len(results) = Len(callList)
       /\ \A i \in 1..Len(callList) :
            /\ results[i].name = callList[i].name
            /\ results[i].success = (OwnOutcome(callList[i]) = "applied")
            /\ ~results[i].success => results[i].error # ""
            /\ (callList[i].name \in RegisteredTools /\ callList[i].args = FullArgs)
                 => Len(EventsOf(callList[i].id)) = 2

\* a batch of three calls whose second call fails the parsing of its arguments has
\* returned three results, the first and the third a success
C13_Witness ==
  /\ epc = "returned"
  /\ Len(callList) = 3 /\ Len(results) = 3
  /\ callList[2].args = NotJson /\ results[2].error = ErrParse
  /\ results[1].success /\ results[3].success
  /\ results[3].toolCallId = FirstCallId + 3

\* the calls C14 is about: the payload is no JSON, a required argument is missing, the
\* insert position is none of the four, or the name is none of the four tools
Malformed(call) ==
  \/ call.args.json = "error"
  \/ call.name = "replace_selection" /\ ~call.args.content
  \/ call.name = "insert_text" /\ (call.args.position = Undefined \/ ~call.args.content)
  \/ call.name = "insert_text" /\ call.args.position \notin ValidPositions
  \/ call.name = "add_comment_to_selection" /\ ~call.args.comment
  \/ call.name \notin RegisteredTools

\* C14: a tool call with a payload that is no JSON, with a required argument missing,
\* with an insert position outside the four allowed ones or with an unknown tool name
\* gets a failure ToolResult, and no Document Adapter operation is invoked for it.
C14_MalformedCallTouchesNothing ==
  \A i \in 1..Len(callList) :
    Malformed(callList[i]) =>
      /\ EventsOf(callList[i].id) = <<>>
      /\ i <= Len(results) => ~results[i].success /\ results[i].error # ""

\* a batch with a bad insert position, an unknown tool and a payload that is no JSON has
\* returned, a well-formed call of the same batch having reached the adapter
C14_Witness ==
  /\ epc = "returned"
  /\ \E i, j, k \in 1..Len(callList) :
       /\ results[i].error = ErrPosition
       /\ results[j].error = ErrUnknownTool
       /\ results[k].error \in {ErrParse, ErrInsertArgs, ErrReplaceArgs, ErrCommentArgs}
  /\ Len(callList) = 3

\* C15: the Document Adapter operations of a batch run one at a time and in the order of
\* the tool-call list: every operation that starts settles (done or failed) before the
\* next one starts, and the operations start in increasing order of their calls.
C15_AdapterOperationsInOrder ==
  /\ \A k \in 1..Len(adapterLog) :
       IF k % 2 = 1
       THEN adapterLog[k].ev = "start"
       ELSE adapterLog[k].ev \in {"done", "failed"} /\ adapterLog[k].call = adapterLog[k - 1].call
  /\ \A k, l \in 1..Len(adapterLog) :
       (k < l /\ adapterLog[k].ev = "start" /\ adapterLog[l].ev = "start")
         => adapterLog[k].call < adapterLog[l].call
  /\ \A k \in 1..Len(adapterLog) :
       \E i \in 1..Len(callList) :
         callList[i].id = adapterLog[k].call /\ callList[i].name = adapterLog[k].op

\* three adapter operations have run, the first of them failed, and the second started
\* after it
C15_Witness ==
  /\ epc = "returned"
  /\ Len(adapterLog) = 6
  /\ adapterLog[2].ev = "failed"
  /\ adapterLog[3].ev = "start" /\ adapterLog[3].call = FirstCallId + 2
  /\ adapterLog[6].ev = "done"

(***************************************************************************)
(* Turn handler of the chat panel: handleSend, handleCancel                *)
(***************************************************************************)
\* how many turns a run takes beyond the gathering of the context; one more turn can
\* start
MaxTurns == 1

\* what the two regular expressions say of the user's input: "translate this",
\* "use the selection as a title", "insert a greeting", "hello"
Inputs == [requiresSelection : BOOLEAN, shouldForceToolCall : BOOLEAN]

\* what getSelectionText() gives: blanks (a throw leaves the empty string, blank
\* as well), some text, or a selection as long as the request ceiling
Selections == {"   ", "text", "huge"}

\* the selection as it is, blanks kept
TrimNothing(selection) == selection

\* selection.trim()
TrimSelection(selection) == IF selection = "   " THEN "" ELSE selection

\* the tool-call lists of the responses of a turn
TurnBatches ==
  { <<ToolCall(1, [name |-> "replace_selection", args |-> FullArgs])>>,
    <<ToolCall(1, [name |-> "replace_selection", args |-> NotJson]),
      ToolCall(2, [name |-> "add_comment_to_selection", args |-> FullArgs])>> }

\* the responses of the backend in a turn: those of Responses, and successful ones
\* with and without text, with and without tool calls
TurnResponses ==
  { [status |-> 200, body |-> "no choices"],
    [status |-> 400, body |-> "error json"], [status |-> 400, body |-> "empty"],
    [status |-> 500, body |-> "error json 400"] }
    \cup { [status |-> 200, body |-> "choices", message |-> AssistantMessage(text, <<>>)] :
             text \in BOOLEAN }
    \cup { [status |-> 200, body |-> "choices", message |-> AssistantMessage(text, calls)] :
             text \in BOOLEAN, calls \in TurnBatches }

\* the errors fetch rejects with in a turn: a transient one, one that is not, and
\* the AbortError
TurnErrors ==
  { [name |-> "TypeError", message |-> "Load failed"],
    [name |-> "TypeError", message |-> "cancelled by the host"], AbortError }

\* a check of the tool calls that never sees one
hasToolCallsNever(m) == FALSE

\* hasToolCalls(message)
hasToolCalls(m) == Len(m.tool_calls) > 0

\* result.error?.includes("400")
Includes400(error) == error \in {ErrStatus(400), ErrHttpMessage400}

\* line 411: the condition of the retry without tools
RetryWithoutTools(r, toolChoice) ==
  ~r.success /\ Includes400(r.error) /\ toolChoice = "auto"

\* the guard of handleSend when only the isLoading state is looked at
GuardedByStateOnly(isLoadingSeen, inProgress) == isLoadingSeen

\* line 340: handleSend returns at once (the input is not empty and the model is
\* configured when the user can submit)
Guarded(isLoadingSeen, inProgress) == isLoadingSeen \/ inProgress

\* a ChatMessage the turn appends, and its size on the wire
TurnMsg(role, n) == [role |-> role, content |-> n]

\* the error text of the missing selection, and of a forced tool call that did not come
ErrNoSelection == "no selection detected, select text first"
ErrNoToolCall == "could not trigger a document tool, retry or simplify"
ErrNoResponse == "Failed to get response from AI"

\* sm.getMessages() as sendChat measures it: the user message of this turn carries
\* the selection
Wire(msgs, userContent, selection) ==
  [i \in 1..Len(msgs) |->
     [role |-> msgs[i].role, n |-> msgs[i].content,
      size |-> IF msgs[i].content = userContent /\ selection = "huge"
               THEN SmallMessage + MAX_REQUEST_BODY_CHARS ELSE SmallMessage]]

ValidConfig == [baseUrl |-> "https://api.example.com", apiKey |-> "key", model |-> "m"]

\* the parameters of a sendChat call of the turn
TurnParams(store, tools, userContent, selection, controller) ==
  [config |-> ValidConfig, messages |-> Wire(getMessages(store), userContent, selection),
   tools |-> tools, external |-> IF controller = NULL THEN "none" ELSE "live"]

NoMessage == AssistantMessage(FALSE, <<>>)

NoTurn ==
  [requestId |-> 0, session |-> NULL, selection |-> "", userContent |-> 0,
   beforeMessages |-> <<>>, beforeDisplay |-> <<>>,
   chat |-> <<>>, display |-> <<>>, calls |-> <<>>,
   cancelling |-> FALSE, cancelled |-> FALSE, executed |-> FALSE, accepted |-> NoMessage, ended |-> "never",
   lastSubmit |-> [inFlight |-> FALSE, accepted |-> FALSE]]

InitTurn ==
  /\ tpc = "idle"
  /\ stage = "auto"
  /\ userInput = [requiresSelection |-> FALSE, shouldForceToolCall |-> FALSE]
  /\ turnMessage = NoMessage
  /\ isLoading = FALSE
  /\ rendered = FALSE
  /\ sendInProgressRef = FALSE
  /\ requestIdRef = 0
  /\ activeRequestIdRef = NULL
  /\ abortControllerRef = NULL
  /\ turn = NoTurn

\* the store after the turn has appended chat messages and display messages to the
\* active session, in this order within each history
TurnCommit(m, chatAdds, displayAdds) ==
  LET target == getActiveSession(Cur).value
  IN /\ Commit(m)
     /\ nextMsg' = nextMsg + Len(chatAdds) + Len(displayAdds)
     /\ appended' = IF target = NULL THEN appended
                    ELSE [appended EXCEPT ![target].messages = @ \o chatAdds,
                                          ![target].displayMessages = @ \o displayAdds]
     /\ UNCHANGED <<lsFault, now, nextId, ops, ret>>

\* the finally block of handleSend
Finally ==
  /\ tpc' = "idle"
  /\ IF activeRequestIdRef = turn.requestId
     THEN /\ isLoading' = FALSE
          /\ abortControllerRef' = NULL
          /\ sendInProgressRef' = FALSE
          /\ activeRequestIdRef' = NULL
     ELSE UNCHANGED <<isLoading, abortControllerRef, sendInProgressRef, activeRequestIdRef>>

\* the turn ends with the chat messages chatAdds and the display messages displayAdds
EndTurn(base, chatAdds, displayAdds, how) ==
  LET m1 == IF Len(chatAdds) = 0 THEN Cur
            ELSE addMessage(Cur, chatAdds[1].msg, now, lsFault)
      m2 == IF Len(displayAdds) = 0 THEN m1
            ELSE addDisplayMessage(m1, displayAdds[1].msg, now, lsFault)
  IN /\ TurnCommit(m2, [i \in 1..Len(chatAdds) |-> chatAdds[i].msg],
                       [i \in 1..Len(displayAdds) |-> displayAdds[i].msg])
     /\ turn' = [base EXCEPT !.chat = @ \o chatAdds, !.display = @ \o displayAdds,
                             !.ended = how]
     /\ Finally

\* an assistant display message without the error flag
PlainEntry(n, error) ==
  [msg |-> DisplayMsg(n, "assistant", Undefined, Undefined, now), kind |-> "assistant", text |-> error]

\* an error-flagged assistant display message
ErrorEntry(n, error) ==
  [msg |-> DisplayMsg(n, "assistant", Undefined, "true", now), kind |-> "error", text |-> error]

\* the user submits (the button, or Enter): handleSend up to its first await
HandleSend(input) ==
  /\ IF Guarded(rendered, sendInProgressRef)
     THEN /\ turn' = [turn EXCEPT !.lastSubmit = [inFlight |-> tpc # "idle", accepted |-> FALSE]]
          /\ UNCHANGED <<tpc, stage, userInput, turnMessage, isLoading, rendered,
                         sendInProgressRef, requestIdRef, activeRequestIdRef,
                         abortControllerRef>>
     ELSE /\ requestIdRef <= MaxTurns
          /\ userInput' = input
          /\ isLoading' = TRUE
          /\ sendInProgressRef' = TRUE
          /\ requestIdRef' = requestIdRef + 1
          /\ activeRequestIdRef' = requestIdRef + 1
          /\ abortControllerRef' = requestIdRef + 1
          /\ tpc' = "context"
          /\ stage' = "auto"
          /\ turnMessage' = NoMessage
          /\ turn' = [NoTurn EXCEPT !.requestId = requestIdRef + 1,
                                    !.session = getActiveSession(Cur).value,
                                    !.beforeMessages = getMessages(Cur),
                                    !.beforeDisplay = getDisplayMessages(Cur),
                                    !.ended = "",
                                    !.lastSubmit = [inFlight |-> tpc # "idle", accepted |-> TRUE]]
          /\ UNCHANGED rendered
  /\ IF Guarded(rendered, sendInProgressRef)
     THEN UNCHANGED execVars
     ELSE adapterLog' = <<>> /\ UNCHANGED <<epc, callList, results, bridgeVars, builderVars>>
  /\ UNCHANGED <<storeVars, chatVars>>

\* React renders the panel again: the handlers see the current isLoading
Render ==
  /\ rendered # isLoading
  /\ rendered' = isLoading
  /\ UNCHANGED <<tpc, stage, userInput, turnMessage, isLoading, sendInProgressRef, requestIdRef,
                 activeRequestIdRef, abortControllerRef, turn>>
  /\ UNCHANGED <<storeVars, chatVars, execVars>>

\* the turn's history with the sendChat call that has returned: what it sent, the
\* status of the response it got (0 when none came), what it returned, whether
\* handleCancel ran while it was in flight
Returned ==
  [turn EXCEPT !.calls = Append(@, [stage |-> stage, tools |-> params.tools,
                                    hadController |-> params.external # "none",
                                    status |-> response.status,
                                    result |-> result, cancelled |-> turn.cancelling]),
               !.cancelling = FALSE]

\* sendChat has returned: its locals are gone
ChatGone ==
  /\ pc' = "idle"
  /\ params' = [config |-> [baseUrl |-> "", apiKey |-> "", model |-> ""], messages |-> <<>>,
                tools |-> FALSE, external |-> "none"]
  /\ requestBody' = [messages |-> <<>>, tools |-> FALSE]
  /\ pruned' = FALSE
  /\ requestChars' = 0
  /\ timer' = "unset"
  /\ timedOut' = FALSE
  /\ aborted' = FALSE
  /\ listener' = FALSE
  /\ extAborted' = FALSE
  /\ fetchCount' = 0
  /\ attempts' = <<>>
  /\ response' = NoResponse
  /\ abortedBy' = "none"
  /\ result' = NoResult

\* getSelectionText() and getDocumentText() have settled: the selection check, the
\* user's message and the first request
ContextGathered(selection) ==
  /\ tpc = "context"
  /\ turn.requestId <= MaxTurns
  /\ IF activeRequestIdRef # turn.requestId
     THEN /\ Finally
          /\ turn' = [turn EXCEPT !.ended = "stale"]
          /\ UNCHANGED <<storeVars, chatVars, stage>>
     ELSE IF userInput.requiresSelection /\ TrimSelection(selection) = ""
     THEN /\ EndTurn(turn, <<>>, <<ErrorEntry(nextMsg, ErrNoSelection)>>, "selection")
          /\ UNCHANGED <<chatVars, stage>>
     ELSE LET userMessage == TurnMsg("user", nextMsg)
              shown == DisplayMsg(nextMsg + 1, "user", Undefined, Undefined, now)
              m == addDisplayMessage(addMessage(Cur, userMessage, now, lsFault), shown, now, lsFault)
          IN /\ TurnCommit(m, <<userMessage>>, <<shown>>)
             /\ stage' = "auto"
             /\ SendChatCall(TurnParams(m, TRUE, nextMsg, selection, abortControllerRef))
             /\ turn' = [turn EXCEPT !.selection = selection, !.userContent = nextMsg,
                                     !.chat = <<[msg |-> userMessage, kind |-> "user"]>>,
                                     !.display = <<[msg |-> shown, kind |-> "user", text |-> ""]>>]
             /\ tpc' = "chat"
             /\ UNCHANGED <<isLoading, abortControllerRef, sendInProgressRef, activeRequestIdRef>>
  /\ UNCHANGED <<userInput, turnMessage, rendered, requestIdRef>>
  /\ UNCHANGED execVars

\* lines 457-492 up to the await of executeToolCalls: the accepted message m
HandleMessage(m) ==
  IF hasToolCalls(m)
  THEN /\ ExecuteCall(m.tool_calls)
       /\ turnMessage' = m
       /\ tpc' = "tools"
       /\ turn' = [Returned EXCEPT !.executed = TRUE, !.accepted = m]
       /\ UNCHANGED <<storeVars, isLoading, abortControllerRef, sendInProgressRef,
                      activeRequestIdRef>>
  ELSE /\ IF m.content
          THEN EndTurn([Returned EXCEPT !.accepted = m],
                       <<[msg |-> TurnMsg("assistant", nextMsg), kind |-> "text"]>>,
                       <<[msg |-> DisplayMsg(nextMsg + 1, "assistant", Undefined, Undefined, now),
                          kind |-> "assistant", text |-> ""]>>, "text")
          ELSE EndTurn([Returned EXCEPT !.accepted = m], <<>>, <<>>, "empty")
       /\ turnMessage' = m
       /\ UNCHANGED execVars

\* every requestChatWithTools call taken for one with toolChoice auto
ToolChoiceAlwaysAuto(s) == "auto"

\* the toolChoice of the requestChatWithTools call a sendChat call belongs to
ToolChoiceOf(s) == IF s = "required" THEN "required" ELSE "auto"

\* a sendChat call of the turn has returned: requestChatWithTools from line 411 on,
\* and handleSend from line 427 to the await of the next call or of the tools
ChatReturns ==
  /\ tpc = "chat"
  /\ pc = "done"
  /\ IF stage # "noTools" /\ RetryWithoutTools(result, ToolChoiceOf(stage))
     THEN /\ stage' = "noTools"
          /\ SendChatCall(TurnParams(Cur, FALSE, turn.userContent, turn.selection, abortControllerRef))
          /\ turn' = Returned
          /\ UNCHANGED <<storeVars, execVars, tpc, turnMessage, isLoading, abortControllerRef,
                         sendInProgressRef, activeRequestIdRef>>
     ELSE IF stage \in {"auto", "noTools"}
     THEN IF activeRequestIdRef # turn.requestId
          THEN /\ Finally
               /\ ChatGone
               /\ turn' = [Returned EXCEPT !.ended = "stale"]
               /\ UNCHANGED <<storeVars, execVars, stage, turnMessage>>
          ELSE IF ~result.success
          THEN /\ EndTurn(Returned, <<>>,
                          <<ErrorEntry(nextMsg, IF result.error = "" THEN ErrNoResponse
                                                ELSE result.error)>>, "error")
               /\ ChatGone
               /\ UNCHANGED <<execVars, stage, turnMessage>>
          ELSE IF userInput.shouldForceToolCall /\ ~hasToolCalls(result.message)
          THEN /\ stage' = "required"
               /\ turnMessage' = result.message
               /\ SendChatCall(TurnParams(Cur, TRUE, turn.userContent, turn.selection,
                                          abortControllerRef))
               /\ turn' = Returned
               /\ UNCHANGED <<storeVars, execVars, tpc, isLoading, abortControllerRef,
                              sendInProgressRef, activeRequestIdRef>>
          ELSE /\ HandleMessage(result.message)
               /\ ChatGone
               /\ UNCHANGED stage
     ELSE IF result.success /\ hasToolCalls(result.message)
          THEN /\ HandleMessage(result.message)
               /\ ChatGone
               /\ UNCHANGED stage
          ELSE /\ EndTurn(Returned, <<>>,
                          <<ErrorEntry(nextMsg, IF result.success THEN ErrNoToolCall
                                                ELSE result.error)>>, "forced")
               /\ ChatGone
               /\ UNCHANGED <<execVars, stage, turnMessage>>
  /\ UNCHANGED <<userInput, rendered, requestIdRef>>

\* executeToolCalls has returned: the tool_result entry, then the text of the
\* message or the bracketed summary
ToolsReturn ==
  /\ tpc = "tools"
  /\ epc = "loop"
  /\ Len(results) = Len(callList)
  /\ LET failed == \E i \in 1..Len(results) : ~results[i].success
         toolEntry == [msg |-> DisplayMsg(nextMsg, "tool_result", Undefined,
                                          IF failed THEN "true" ELSE "false", now),
                       kind |-> "tool_result", text |-> ""]
         m1 == addDisplayMessage(Cur, toolEntry.msg, now, lsFault)
         chatMsg == TurnMsg("assistant", nextMsg + 1)
         m2 == addMessage(m1, chatMsg, now, lsFault)
         shown == DisplayMsg(nextMsg + 2, "assistant", Undefined, Undefined, now)
         m3 == addDisplayMessage(m2, shown, now, lsFault)
     IN IF turnMessage.content
        THEN /\ TurnCommit(m3, <<chatMsg>>, <<toolEntry.msg, shown>>)
             /\ turn' = [turn EXCEPT
                           !.chat = Append(@, [msg |-> chatMsg, kind |-> "text"]),
                           !.display = @ \o <<toolEntry, [msg |-> shown, kind |-> "assistant",
                                                          text |-> ""]>>,
                           !.ended = "tools"]
        ELSE /\ TurnCommit(m2, <<chatMsg>>, <<toolEntry.msg>>)
             /\ turn' = [turn EXCEPT
                           !.chat = Append(@, [msg |-> chatMsg, kind |-> "summary"]),
                           !.display = Append(@, toolEntry),
                           !.ended = "tools"]
  /\ Finally
  /\ epc' = "idle"
  /\ callList' = <<>>
  /\ results' = <<>>
  /\ UNCHANGED <<adapterLog, bridgeVars, builderVars>>
  /\ UNCHANGED <<chatVars, stage, userInput, turnMessage, rendered, requestIdRef>>

\* handleSend has not been handed a response of the model yet: it gathers the context,
\* or awaits the first request or its retry without tools
BeforeResponse ==
  \/ tpc = "context"
  \/ tpc = "chat" /\ stage \in {"auto", "noTools"} /\ pc \in {"fetch1", "delay", "fetch2", "body"}

\* the user presses the cancel button, which is rendered while isLoading is: handleCancel.
\* (No click comes between the return of sendChat and the code that awaits it.)
HandleCancel ==
  /\ rendered
  /\ abortControllerRef # NULL
  /\ ~RejectionPending
  /\ ~(tpc = "chat" /\ pc = "done")
  /\ abortControllerRef' = NULL
  /\ IF tpc = "chat" /\ pc \in {"fetch1", "delay", "fetch2", "body"}
     THEN /\ turn' = [turn EXCEPT !.cancelling = TRUE, !.cancelled = @ \/ BeforeResponse]
          /\ IF params.external = "live" /\ ~extAborted THEN AbortExternal ELSE UNCHANGED chatVars
     ELSE /\ turn' = [turn EXCEPT !.cancelled = @ \/ BeforeResponse]
          /\ UNCHANGED chatVars
  /\ UNCHANGED <<tpc, stage, userInput, turnMessage, isLoading, rendered, sendInProgressRef,
                 requestIdRef, activeRequestIdRef>>
  /\ UNCHANGED <<storeVars, execVars>>

NextTurn ==
  \/ \E input \in Inputs : HandleSend(input)
  \/ Render
  \/ \E selection \in Selections : ContextGathered(selection)
  \/ ChatReturns
  \/ ToolsReturn
  \/ HandleCancel
  \/ (tpc = "chat" /\ ChatProgress(TurnResponses, TurnErrors))
  \/ (tpc = "tools" /\ ExecProgress)

(***************************************************************************)
(* Claims about the turn handler                                           *)
(***************************************************************************)
\* the turn is over
TurnOver == turn.ended \notin {"never", ""}

\* handleCancel ran while a sendChat call of the turn was in flight
CancelledInFlight ==
  \/ turn.cancelling
  \/ \E i \in 1..Len(turn.calls) : turn.calls[i].cancelled

\* the last display message of the turn is error-flagged
EndsWithError ==
  /\ Len(turn.display) > 0
  /\ turn.display[Len(turn.display)].kind = "error"
  /\ turn.display[Len(turn.display)].msg.isError = "true"

\* C12: when the user cancels while a sendChat call of the turn is in flight, that call
\* returns the user-cancelled failure, no tool call of the turn is executed and the turn
\* ends with an error-flagged display message; a cancel does not touch what the Document
\* Adapter has already done.
C12_CancelEndsTheTurn ==
  /\ [](/\ \A i \in 1..Len(turn.calls) :
             turn.calls[i].cancelled => turn.calls[i].result = Failure(ErrCancelled)
        /\ CancelledInFlight => ~turn.executed
        /\ (CancelledInFlight /\ TurnOver) => EndsWithError)
  /\ [][(abortControllerRef # NULL /\ abortControllerRef' = NULL /\ tpc' = tpc)
          => adapterLog' = adapterLog]_vars

\* the user cancelled while the body of the response was being read, and the turn went
\* on to run the tool calls of that response
C12_Witness ==
  /\ turn.ended = "tools"
  /\ Len(turn.calls) = 1
  /\ turn.calls[1].cancelled
  /\ turn.calls[1].result.success
  /\ Len(adapterLog) > 0
  /\ abortControllerRef = NULL

\* the sendChat calls of the turn that were made without tools
RetriesWithoutTools == {i \in 1..Len(turn.calls) : turn.calls[i].stage = "noTools"}

\* C16: the first request of a turn carries the tools with tool_choice auto; when the
\* backend answers it with the status 400 the turn makes exactly one more request, with
\* neither tools nor tool_choice, and it makes such a request for every rejection with the
\* status 400 and after no other outcome of the first request.
C16_RetryWithoutToolsOn400 ==
  (TurnOver /\ Len(turn.calls) >= 1) =>
    /\ turn.calls[1].stage = "auto" /\ turn.calls[1].tools
    /\ \A i \in RetriesWithoutTools : i = 2 /\ ~turn.calls[i].tools
    /\ (turn.calls[1].status = 400) <=> (RetriesWithoutTools = {2})

\* the backend rejected the first request with the status 400 and a JSON error body, and
\* the turn ended with that error after its only request
C16_Witness ==
  /\ turn.ended = "error"
  /\ Len(turn.calls) = 1
  /\ turn.calls[1].status = 400
  /\ turn.calls[1].result = Failure(ErrHttpMessage)
  /\ EndsWithError

\* the messages of the entries the turn recorded
Msgs(entries) == [i \in 1..Len(entries) |-> entries[i].msg]

\* the kinds of the entries the turn recorded
Kinds(entries) == [i \in 1..Len(entries) |-> entries[i].kind]

\* the histories of the active session are those the turn started with, followed by
\* what the turn appended, cut to the last MAX_MESSAGES_PER_SESSION
HistoriesHoldTheTurn ==
  /\ getMessages(Cur) = SliceLast(turn.beforeMessages \o Msgs(turn.chat), MAX_MESSAGES_PER_SESSION)
  /\ getDisplayMessages(Cur)
       = SliceLast(turn.beforeDisplay \o Msgs(turn.display), MAX_MESSAGES_PER_SESSION)

\* a tool call of the accepted response failed
SomeToolFailed ==
  \E i \in 1..Len(turn.accepted.tool_calls) : OwnOutcome(turn.accepted.tool_calls[i]) # "applied"

\* C17: when the accepted response of a turn carries tool calls, the turn executes them
\* and appends one tool_result display message, error-flagged exactly when a ToolResult
\* failed; then the text of the response as one assistant chat message and one assistant
\* display message, or, without text, one bracketed-summary assistant chat message and
\* no assistant display message. A response without tool calls and with text is appended
\* as one assistant chat message and one assistant display message.
C17_AcceptedResponseAppends ==
  (TurnOver /\ turn.ended \notin {"error", "forced", "selection", "stale"}) =>
    /\ HistoriesHoldTheTurn
    /\ IF Len(turn.accepted.tool_calls) > 0
       THEN /\ turn.executed
            /\ \A i \in 1..Len(turn.accepted.tool_calls) :
                 ArgumentError(turn.accepted.tool_calls[i]) = ""
                   => Len(EventsOf(turn.accepted.tool_calls[i].id)) = 2
            /\ turn.display[2].msg.role = "tool_result"
            /\ turn.display[2].msg.isError = (IF SomeToolFailed THEN "true" ELSE "false")
            /\ IF turn.accepted.content
               THEN /\ Kinds(turn.chat) = <<"user", "text">>
                    /\ Kinds(turn.display) = <<"user", "tool_result", "assistant">>
                    /\ turn.display[3].msg.role = "assistant"
                    /\ turn.display[3].msg.isError = Undefined
               ELSE /\ Kinds(turn.chat) = <<"user", "summary">>
                    /\ Kinds(turn.display) = <<"user", "tool_result">>
            /\ turn.chat[2].msg.role = "assistant"
       ELSE /\ ~turn.executed /\ adapterLog = <<>>
            /\ turn.accepted.content =>
                 /\ Kinds(turn.chat) = <<"user", "text">>
                 /\ Kinds(turn.display) = <<"user", "assistant">>
                 /\ turn.chat[2].msg.role = "assistant"
                 /\ turn.display[2].msg.role = "assistant"
                 /\ turn.display[2].msg.isError = Undefined

\* a response with two tool calls and no text was accepted on the forced second request,
\* one of the calls failed, and the turn appended the error-flagged tool_result entry and
\* the bracketed summary
C17_Witness ==
  /\ turn.ended = "tools"
  /\ Len(turn.accepted.tool_calls) = 2
  /\ ~turn.accepted.content
  /\ SomeToolFailed
  /\ Kinds(turn.chat) = <<"user", "summary">>
  /\ turn.display[2].msg.isError = "true"
  /\ Len(turn.calls) = 2 /\ turn.calls[2].stage = "required"
  /\ Len(getMessages(Cur)) = MAX_MESSAGES_PER_SESSION

\* the sendChat call of the turn that returned last
LastCall == turn.calls[Len(turn.calls)]

\* C18: when the Chat Transport call that decides a turn fails (timeout, cancellation,
\* request too large, network error, HTTP error, empty response), the turn ends without
\* an exception; the chat history of the session is the one before the turn plus the
\* user's message, cut to the limit, with no assistant message; the display history has
\* gained the user's entry and then exactly one error-flagged entry with the error of
\* the call; no tool was executed.
C18_FailedCallLeavesUserMessage ==
  (Len(turn.calls) >= 1 /\ ~LastCall.result.success /\ tpc \notin {"chat"}) =>
    /\ tpc = "idle" /\ TurnOver
    /\ ~isLoading /\ ~sendInProgressRef
    /\ Kinds(turn.chat) = <<"user">>
    /\ turn.chat[1].msg.role = "user"
    /\ Kinds(turn.display) = <<"user", "error">>
    /\ turn.display[1].msg.role = "user"
    /\ turn.display[2].msg.role = "assistant" /\ turn.display[2].msg.isError = "true"
    /\ turn.display[2].text = LastCall.result.error
    /\ HistoriesHoldTheTurn
    /\ ~turn.executed /\ adapterLog = <<>>

\* a turn whose request ran into the timeout has ended: the chat history is at its limit
\* with the user's message as its last entry
C18_Witness ==
  /\ TurnOver
  /\ Len(turn.calls) = 1
  /\ LastCall.result = Failure(ErrTimeout)
  /\ Kinds(turn.display) = <<"user", "error">>
  /\ Len(getMessages(Cur)) = MAX_MESSAGES_PER_SESSION
  /\ getMessages(Cur)[MAX_MESSAGES_PER_SESSION] = turn.chat[1].msg

\* C19: when the input needs a selection and the selection is empty or blank, the turn
\* appends exactly one error-flagged display message that asks for a selection, appends
\* no chat message, makes no sendChat call, executes no tool and ends with the guard of
\* handleSend released.
C19_NoSelectionShortCircuit ==
  /\ (TurnOver /\ userInput.requiresSelection /\ turn.chat = <<>>) =>
       /\ turn.ended = "selection"
  /\ turn.ended = "selection" =>
       /\ userInput.requiresSelection
       /\ Kinds(turn.display) = <<"error">>
       /\ turn.display[1].msg.isError = "true" /\ turn.display[1].text = ErrNoSelection
       /\ turn.chat = <<>> /\ turn.calls = <<>> /\ ~turn.executed /\ adapterLog = <<>>
       /\ getMessages(Cur) = turn.beforeMessages
       /\ HistoriesHoldTheTurn
       /\ (tpc = "idle" => ~isLoading /\ ~sendInProgressRef /\ activeRequestIdRef = NULL
                            /\ abortControllerRef = NULL)
  /\ (tpc \in {"chat", "tools"} /\ userInput.requiresSelection) => turn.selection # "   "

\* the turn of an input that needs a selection has ended at the selection check
C19_Witness ==
  /\ turn.ended = "selection"
  /\ tpc = "idle"
  /\ ~sendInProgressRef
  /\ Len(getDisplayMessages(Cur)) = MAX_MESSAGES_PER_SESSION
  /\ getDisplayMessages(Cur)[MAX_MESSAGES_PER_SESSION] = turn.display[1].msg

Shown(s) == [name |-> s.name, messages |-> s.messages, displayMessages |-> s.displayMessages]

\* the step keeps the set of sessions, and every session but id as it was
OthersKept(id) ==
  /\ MapIds(sessions') = MapIds(sessions)
  /\ \A i \in 1..Len(sessions) :
       sessions[i].id # id => Shown(MapGet(sessions', sessions[i].id)) = Shown(sessions[i])

\* C28: addMessage, addDisplayMessage and clearActiveSession change the active session
\* only, renameSession(id) changes session id only: every other session keeps its name,
\* its messages and its displayMessages. setActiveSession, renameSession and
\* deleteSession with an id that names no session return null / false and leave the
\* sessions, their histories and the active session as they are.
C28_SessionsIndependent ==
  [][ops' = ops + 1 =>
       /\ ret'.op \in {"addMessage", "addDisplayMessage", "clearActiveSession", "renameSession"}
            => OthersKept(ret'.id)
       /\ ret'.op \in {"addMessage", "addDisplayMessage", "clearActiveSession"}
            => ret'.id = getActiveSession(Cur).value
       /\ (ret'.op \in {"setActiveSession", "renameSession", "deleteSession"} /\ ~ret'.existed)
            => /\ ~ret'.ok
               /\ sessions' = sessions
               /\ activeSessionId' = activeSessionId]_vars

\* clearActiveSession emptied the active session while another session kept its history
C28_Witness ==
  /\ ret.op = "clearActiveSession"
  /\ ret.hadHistory
  /\ Len(sessions) >= 2
  /\ MapGet(sessions, ret.id).messages = <<>>
  /\ \E i \in 1..Len(sessions) : sessions[i].id # ret.id /\ sessions[i].messages # <<>>

(***************************************************************************)
(* Further claims about the Chat Transport                                 *)
(***************************************************************************)
\* the system message followed by the caller's messages
FullMessages == <<SystemMessage>> \o params.messages

\* how many of the caller's messages the request body leaves out
Dropped == Len(FullMessages) - Len(requestBody.messages)

\* the list with the system message and all but the k oldest of the caller's messages
WithoutOldest(k) == <<FullMessages[1]>> \o SubSeq(FullMessages, k + 2, Len(FullMessages))

\* the request body holds the system message and the newest of the caller's messages in
\* their order, and no message was dropped that did not have to be
PrunedOldestFirst ==
  /\ Dropped >= 0
  /\ requestBody.messages = WithoutOldest(Dropped)
  /\ requestBody.messages[1] = SystemMessage
  /\ pruned = (Dropped > 0)
  /\ requestChars = estimateChars(params.tools, requestBody.messages)
  /\ Dropped > 0 =>
       estimateChars(params.tools, WithoutOldest(Dropped - 1)) > MAX_REQUEST_BODY_CHARS

\* C26 as stated: over the ceiling sendChat drops the message at index 1 again and
\* again, keeping the system message and the order of the rest, until the size is under
\* the ceiling or fewer than 3 messages remain.
C26_PruneUntilFewerThanThree ==
  (pc # "idle" /\ MissingFields = {}) =>
    /\ PrunedOldestFirst
    /\ \/ requestChars <= MAX_REQUEST_BODY_CHARS
       \/ Len(requestBody.messages) < 3

\* C26 as amended: over the ceiling sendChat drops the message at index 1 again and
\* again, keeping the system message and the order of the rest, until the size is under
\* the ceiling or no more than 3 messages remain (the system message and the two newest);
\* the list of the caller and the histories of the sessions are not modified.
C26_PruneUntilThree ==
  /\ []((pc # "idle" /\ MissingFields = {}) =>
          /\ PrunedOldestFirst
          /\ \/ requestChars <= MAX_REQUEST_BODY_CHARS
             \/ Len(requestBody.messages) <= 3
          /\ Dropped > 0 => Len(requestBody.messages) >= 3)
  /\ [][pc # "idle" => (params' = params /\ sessions' = sessions)]_vars

\* two of four messages were dropped and the request went out with the system message
\* and the two newest
C26_Witness ==
  /\ pc = "fetch1"
  /\ Len(params.messages) = 4
  /\ Dropped = 2
  /\ requestBody.messages = <<SystemMessage, params.messages[3], params.messages[4]>>
  /\ requestChars <= MAX_REQUEST_BODY_CHARS

\* the index of the nearest assistant message before position i of a list, 0 if none
AssistantBefore(list, i) ==
  LET js == {j \in 1..(i - 1) : list[j].role = "assistant"}
  IN IF js = {} THEN 0 ELSE CHOOSE j \in js : \A k \in js : k <= j

\* every tool message of the list answers a tool call of the nearest assistant message
\* before it
ToolMessagesLinked(list) ==
  \A i \in 1..Len(list) :
    list[i].role = "tool" =>
      LET j == AssistantBefore(list, i)
      IN /\ j > 0
         /\ "tool_calls" \in DOMAIN list[j]
         /\ \E c \in 1..Len(list[j].tool_calls) : list[j].tool_calls[c] = list[i].tool_call_id

\* C23: in every message list stored in a session or sent in a request body, the list
\* left by the pruning included, each tool message carries a tool_call_id of the
\* tool_calls of the nearest assistant message before it.
C23_ToolMessagesLinked ==
  /\ \A i \in 1..Len(sessions) : ToolMessagesLinked(sessions[i].messages)
  /\ fetchCount > 0 => ToolMessagesLinked(requestBody.messages)

\* a request went out whose tool messages follow the system message: the pruning had
\* dropped the assistant message that made the calls
C23_Witness ==
  /\ pc = "fetch1" /\ fetchCount = 1
  /\ pruned
  /\ Len(requestBody.messages) = 3
  /\ requestBody.messages[2].role = "tool"
  /\ requestBody.messages[3].role = "tool"
  /\ ToolMessagesLinked(FullMessages)

(***************************************************************************)
(* buildUserMessage of the SessionManager                                  *)
(***************************************************************************)
\* how many characters a text given to buildUserMessage has at most
MaxText == 2

\* a JavaScript string as the sequence of its characters; a tag of the message is
\* one element
Strings == UNION {[1..n -> {" ", "a"}] : n \in 0..MaxText}

\* an optional string argument: left out (undefined), or a string
Optional == {[given |-> FALSE, text |-> <<>>]} \cup {[given |-> TRUE, text |-> t] : t \in Strings}

RECURSIVE TrimStart(_)
TrimStart(str) == IF str # <<>> /\ Head(str) = " " THEN TrimStart(Tail(str)) ELSE str

RECURSIVE TrimEnd(_)
TrimEnd(str) ==
  IF str # <<>> /\ str[Len(str)] = " " THEN TrimEnd(SubSeq(str, 1, Len(str) - 1)) ELSE str

\* String.prototype.trim
TrimText(str) == TrimEnd(TrimStart(str))

\* the condition `text`, without the trim
TruthyNoTrim(arg) == arg.given /\ arg.text # <<>>

\* the condition `text && text.trim()`
Truthy(arg) == arg.given /\ arg.text # <<>> /\ TrimText(arg.text) # <<>>

\* `[TAG]\n${text}\n[/TAG]`
Block(tag, text) == <<"[" \o tag \o "]", "\n">> \o text \o <<"\n", "[/" \o tag \o "]">>

\* parts.join("\n\n")
RECURSIVE Join(_)
Join(parts) ==
  IF parts = <<>> THEN <<>>
  ELSE IF Len(parts) = 1 THEN parts[1]
  ELSE parts[1] \o <<"\n", "\n">> \o Join(Tail(parts))

buildUserMessage(input, selection, documentText, userRulesText) ==
  LET rules == IF TruthyNoTrim(userRulesText)
               THEN <<Block("USER_RULES", userRulesText.text)>> ELSE <<>>
      document == IF Truthy(documentText)
                  THEN <<Block("DOCUMENT", TrimText(documentText.text))>> ELSE <<>>
      selected == IF Truthy(selection)
                  THEN <<Block("SELECTION", TrimText(selection.text))>> ELSE <<>>
  IN [role |-> "user", content |-> Join(rules \o document \o selected \o <<input>>)]

NoBuilt == [called |-> FALSE, input |-> <<>>,
            selection |-> [given |-> FALSE, text |-> <<>>],
            documentText |-> [given |-> FALSE, text |-> <<>>],
            userRulesText |-> [given |-> FALSE, text |-> <<>>],
            message |-> [role |-> "", content |-> <<>>]]

\* no buildUserMessage call is looked at
InitBuilder == built = NoBuilt

\* the arguments of the call that is looked at
InitBuilderArgs ==
  \E input \in Strings \ {<<>>}, a, b, c \in Optional :
    built = [NoBuilt EXCEPT !.input = input, !.selection = a, !.documentText = b,
                            !.userRulesText = c]

BuildUserMessage ==
  /\ ~built.called
  /\ built' = [built EXCEPT
       !.called = TRUE,
       !.message = buildUserMessage(built.input, built.selection, built.documentText,
                                    built.userRulesText)]
  /\ UNCHANGED <<storeVars, chatVars, turnVars, epc, callList, results, adapterLog, bridgeVars>>

NextBuilder == BuildUserMessage

\* the tags of a message content, in their order
Tags(content) ==
  SelectSeq(content, LAMBDA c : c \in {"[USER_RULES]", "[/USER_RULES]", "[DOCUMENT]",
                                       "[/DOCUMENT]", "[SELECTION]", "[/SELECTION]"})

NonBlank(arg) == arg.given /\ \E i \in 1..Len(arg.text) : arg.text[i] # " "

\* the tags of the blocks that are due, in the fixed order
TagsDue(rulesDue, documentDue, selectionDue) ==
  (IF rulesDue THEN <<"[USER_RULES]", "[/USER_RULES]">> ELSE <<>>)
  \o (IF documentDue THEN <<"[DOCUMENT]", "[/DOCUMENT]">> ELSE <<>>)
  \o (IF selectionDue THEN <<"[SELECTION]", "[/SELECTION]">> ELSE <<>>)

EndsWith(content, input) ==
  /\ Len(content) >= Len(input)
  /\ SubSeq(content, Len(content) - Len(input) + 1, Len(content)) = input

\* C24: buildUserMessage returns a user message whose content has the rules block, the
\* document block and the selection block in this order, each present exactly when its
\* input is neither empty nor blank, and then the raw user input; with no context, or
\* only blank context, the content is exactly the user input.
C24_BlocksForNonBlankInputs ==
  built.called =>
    /\ built.message.role = "user"
    /\ Tags(built.message.content) =
         TagsDue(NonBlank(built.userRulesText), NonBlank(built.documentText),
                 NonBlank(built.selection))
    /\ EndsWith(built.message.content, built.input)
    /\ (~NonBlank(built.userRulesText) /\ ~NonBlank(built.documentText)
          /\ ~NonBlank(built.selection))
         => built.message.content = built.input

\* a blank rules text, no other context: the content is a rules block around the
\* blanks, then the input
C24_Witness ==
  /\ built.called
  /\ built.userRulesText = [given |-> TRUE, text |-> <<" ", " ">>]
  /\ ~built.documentText.given /\ ~built.selection.given
  /\ built.message.content =
       <<"[USER_RULES]", "\n", " ", " ", "\n", "[/USER_RULES]", "\n", "\n">> \o built.input

(***************************************************************************)
(* replaceSelection of the Document Adapter                                *)
(***************************************************************************)
\* Word.ChangeTrackingMode
TrackingModes == {"Off", "TrackAll", "TrackMineOnly"}

NoBridge == [content |-> "", useTrackChanges |-> FALSE,
             originalMode |-> "null", shouldRestore |-> FALSE,
             threw |-> FALSE, settled |-> "none",
             \* history
             modeBefore |-> "Off", switched |-> FALSE, insertedUnder |-> "none",
             restoreTried |-> FALSE, restored |-> FALSE]

\* no replaceSelection call is running; the document tracks no changes
InitBridge ==
  /\ wpc = "idle"
  /\ wordDoc = [changeTrackingMode |-> "Off", text |-> "old"]
  /\ bridge = NoBridge

\* the documents a replaceSelection call can find
InitBridgeDocs ==
  /\ wpc = "idle"
  /\ \E mode \in TrackingModes : wordDoc = [changeTrackingMode |-> mode, text |-> "old"]
  /\ bridge = NoBridge

\* the finally block without the restore
FinallyNoRestore(b) == "done"

\* where replaceSelection goes when it leaves the try block of the replacement: to the
\* restore of the finally block, or to its end
AfterReplacement(b) == IF b.shouldRestore /\ b.originalMode # "null" THEN "restore" ELSE "done"

\* how the promise of replaceSelection settles
Settled(b) == IF b.threw THEN "rejected" ELSE "resolved"

\* replaceSelection(content, useTrackChanges) is called: up to its first await
ReplaceSelection(content, useTrackChanges) ==
  /\ wpc \in {"idle", "done"}
  /\ bridge' = [NoBridge EXCEPT !.content = content, !.useTrackChanges = useTrackChanges,
                                !.modeBefore = wordDoc.changeTrackingMode]
  /\ wpc' = IF useTrackChanges THEN "read" ELSE "select"
  /\ UNCHANGED wordDoc
  /\ UNCHANGED <<storeVars, chatVars, turnVars, epc, callList, results, adapterLog, builderVars>>

\* the context.sync() that replaceSelection awaits resolves (ok) or rejects, and
\* replaceSelection runs on to its next await or to its end
ContextSync(ok) ==
  /\ wpc \in {"read", "switch", "select", "insert", "restore"}
  /\ CASE wpc = "read" ->
            \* load("changeTrackingMode"); originalMode is read, shouldRestore set, the
            \* switch to trackAll queued
            IF ok
            THEN /\ bridge' = [bridge EXCEPT !.originalMode = wordDoc.changeTrackingMode,
                                             !.shouldRestore = TRUE]
                 /\ wpc' = "switch"
                 /\ UNCHANGED wordDoc
            ELSE /\ bridge' = [bridge EXCEPT !.shouldRestore = FALSE]
                 /\ wpc' = "select"
                 /\ UNCHANGED wordDoc
       [] wpc = "switch" ->
            IF ok
            THEN /\ wordDoc' = [wordDoc EXCEPT !.changeTrackingMode = "TrackAll"]
                 /\ bridge' = [bridge EXCEPT !.switched = TRUE]
                 /\ wpc' = "select"
            ELSE /\ bridge' = [bridge EXCEPT !.shouldRestore = FALSE]
                 /\ wpc' = "select"
                 /\ UNCHANGED wordDoc
       [] wpc = "select" ->
            \* getSelection(); load("text"); insertText is queued
            IF ok
            THEN /\ wpc' = "insert"
                 /\ UNCHANGED <<wordDoc, bridge>>
            ELSE LET b == [bridge EXCEPT !.threw = TRUE]
                 IN /\ wpc' = AfterReplacement(b)
                    /\ bridge' = [b EXCEPT !.restoreTried = (AfterReplacement(b) = "restore"),
                                           !.settled = IF AfterReplacement(b) = "done"
                                                       THEN Settled(b) ELSE @]
                    /\ UNCHANGED wordDoc
       [] wpc = "insert" ->
            LET b == IF ok
                     THEN [bridge EXCEPT !.insertedUnder = wordDoc.changeTrackingMode]
                     ELSE [bridge EXCEPT !.threw = TRUE]
            IN /\ wordDoc' = IF ok THEN [wordDoc EXCEPT !.text = bridge.content] ELSE wordDoc
               /\ wpc' = AfterReplacement(b)
               /\ bridge' = [b EXCEPT !.restoreTried = (AfterReplacement(b) = "restore"),
                                      !.settled = IF AfterReplacement(b) = "done"
                                                  THEN Settled(b) ELSE @]
       [] wpc = "restore" ->
            \* the restore of the finally block; its error is caught and logged
            /\ wordDoc' = IF ok THEN [wordDoc EXCEPT !.changeTrackingMode = bridge.originalMode]
                          ELSE wordDoc
            /\ bridge' = [bridge EXCEPT !.restored = ok, !.settled = Settled(bridge)]
            /\ wpc' = "done"
  /\ UNCHANGED <<storeVars, chatVars, turnVars, epc, callList, results, adapterLog, builderVars>>

\* the user switches the tracking mode in Word while no call is running; the call
\* before it is looked at no longer
UserSetsMode(mode) ==
  /\ wpc \in {"idle", "done"}
  /\ wordDoc.changeTrackingMode # mode
  /\ wordDoc' = [wordDoc EXCEPT !.changeTrackingMode = mode]
  /\ wpc' = "idle"
  /\ bridge' = NoBridge
  /\ UNCHANGED <<storeVars, chatVars, turnVars, epc, callList, results, adapterLog, builderVars>>

NextBridge ==
  \/ \E content \in {"new", "newer"}, useTrackChanges \in BOOLEAN :
       ReplaceSelection(content, useTrackChanges)
  \/ \E ok \in BOOLEAN : ContextSync(ok)
  \/ \E mode \in TrackingModes : UserSetsMode(mode)

\* the parts of the claim that hold of every call with track changes requested
ReadSwitchRestore ==
  /\ bridge.switched => bridge.originalMode = bridge.modeBefore
  /\ (bridge.switched /\ bridge.insertedUnder # "none") => bridge.insertedUnder = "TrackAll"
  /\ (bridge.switched /\ wpc = "done") => bridge.restoreTried
  /\ (wpc = "done" /\ bridge.restored) => wordDoc.changeTrackingMode = bridge.modeBefore
  /\ (wpc = "done" /\ bridge.insertedUnder # "none") =>
       bridge.settled = "resolved" /\ wordDoc.text = bridge.content
  /\ wpc = "done" => (bridge.settled = "rejected") = (bridge.insertedUnder = "none")

\* C25, as claimed: for replaceSelection with track changes requested, the original
\* tracking mode is read before the switch to track-all, the replacement is performed
\* while track-all is set, a restore is attempted on every exit path after the switch,
\* a successful restore leaves the mode the document had before, and a failing restore
\* does not make a successful replacement fail.
C25_ReplacedUnderTrackAll ==
  bridge.useTrackChanges =>
    /\ ReadSwitchRestore
    /\ bridge.insertedUnder # "none" => bridge.insertedUnder = "TrackAll"

\* C25, amended: the above when the read and the switch succeed; when one of them
\* fails the replacement is performed under the mode the document has, no restore is
\* attempted and the mode is left as it was.
C25_TrackAllUnlessUnsupported ==
  bridge.useTrackChanges =>
    /\ ReadSwitchRestore
    /\ (~bridge.switched /\ bridge.insertedUnder # "none")
         => bridge.insertedUnder = bridge.modeBefore
    /\ ~bridge.switched =>
         ~bridge.restoreTried /\ wordDoc.changeTrackingMode = bridge.modeBefore

\* a replacement made under track-all in a document that tracked nothing, whose
\* restore failed: the call succeeded and the document is left tracking all changes
C25_Witness ==
  /\ wpc = "done"
  /\ bridge.useTrackChanges /\ bridge.switched
  /\ bridge.modeBefore = "Off" /\ bridge.originalMode = "Off"
  /\ bridge.insertedUnder = "TrackAll"
  /\ bridge.restoreTried /\ ~bridge.restored
  /\ bridge.settled = "resolved"
  /\ wordDoc = [changeTrackingMode |-> "TrackAll", text |-> bridge.content]

(***************************************************************************)
(* Further claims about the turn handler                                   *)
(***************************************************************************)
\* the requests of the turn made with tool_choice required
ForcedCalls == {i \in 1..Len(turn.calls) : turn.calls[i].stage = "required"}

\* the requests of the turn before the forced one that came back with a message
Answered ==
  {i \in 1..Len(turn.calls) : turn.calls[i].stage # "required" /\ turn.calls[i].result.success}

\* C27: when the action-verb heuristic matches the input and the first successful
\* response has no tool calls, the turn makes exactly one further request, with
\* tool_choice required; when that request succeeds with tool calls they are executed,
\* otherwise the turn ends with one error-flagged display message, no tool executed and
\* no assistant chat message appended; when the heuristic does not match there is no
\* such request.
C27_ForcedRetryOnce ==
  TurnOver =>
    /\ Cardinality(ForcedCalls) <= 1
    /\ ForcedCalls # {} <=>
         /\ userInput.shouldForceToolCall
         /\ \E i \in Answered : ~hasToolCalls(turn.calls[i].result.message)
    /\ \A i \in ForcedCalls :
         /\ i = Len(turn.calls)
         /\ turn.calls[i].tools
         /\ IF turn.calls[i].result.success /\ hasToolCalls(turn.calls[i].result.message)
            THEN /\ turn.executed
                 /\ turn.accepted = turn.calls[i].result.message
                 /\ turn.ended = "tools"
                 /\ Len(adapterLog) > 0 \/ \A c \in 1..Len(turn.accepted.tool_calls) :
                                              Malformed(turn.accepted.tool_calls[c])
            ELSE /\ ~turn.executed /\ adapterLog = <<>>
                 /\ Kinds(turn.display) = <<"user", "error">>
                 /\ Kinds(turn.chat) = <<"user">>
                 /\ HistoriesHoldTheTurn

\* the forced request came back with tool calls and they were executed
C27_Witness ==
  /\ turn.ended = "tools"
  /\ userInput.shouldForceToolCall
  /\ Len(turn.calls) = 2
  /\ turn.calls[1].stage = "auto" /\ turn.calls[1].result.success
  /\ ~hasToolCalls(turn.calls[1].result.message)
  /\ turn.calls[2].stage = "required"
  /\ hasToolCalls(turn.calls[2].result.message)
  /\ Len(adapterLog) > 0

\* C29: when the user cancels before handleSend has been handed the response of the
\* model (while the context is gathered, or while the first request or its retry
\* without tools is in flight), no sendChat call is started after the cancel or left
\* running without being cancelled, and no tool call is executed.
C29_CancelStopsTheTurn ==
  turn.cancelled =>
    /\ ~turn.executed /\ adapterLog = <<>>
    /\ \A i \in 1..Len(turn.calls) :
         /\ turn.calls[i].hadController
         /\ turn.calls[i].cancelled => ~turn.calls[i].result.success
    /\ (tpc = "chat" /\ pc \in {"fetch1", "delay", "fetch2", "body"}) => params.external = "live"

\* the user cancelled while the context was gathered; the request was made all the
\* same, without an abort signal, and its tool calls were executed
C29_Witness ==
  /\ turn.cancelled
  /\ turn.ended = "tools"
  /\ Len(turn.calls) = 1
  /\ ~turn.calls[1].hadController
  /\ ~turn.calls[1].cancelled
  /\ turn.calls[1].result.success
  /\ Len(adapterLog) > 0

\* C30: every turn that appends the user's message is back in Idle with at least one
\* further display message appended (assistant text, tool result or error), also when
\* the successful response has neither tool calls nor text.
C30_TurnShowsSomething ==
  (TurnOver /\ turn.userContent # 0) =>
    /\ Len(turn.display) >= 2
    /\ turn.display[1].kind = "user"
    /\ turn.display[Len(turn.display)].kind \in {"assistant", "tool_result", "error"}

\* the response had neither tool calls nor text: the turn is over and the user's own
\* message is the only display message it appended
C30_Witness ==
  /\ turn.ended = "empty"
  /\ tpc = "idle" /\ ~isLoading
  /\ Len(turn.calls) = 1 /\ turn.calls[1].result.success
  /\ Kinds(turn.display) = <<"user">>
  /\ Kinds(turn.chat) = <<"user">>

(***************************************************************************)
(* The session controls of the chat panel                                  *)
(***************************************************************************)
\* the session header and the session list are rendered with their handlers whatever
\* isLoading is; the list offers the sessions there are
HandleSelectSession(sessionId) == MapHas(sessions, sessionId) /\ SetActiveSession(sessionId)

HandleNewSession == CreateSession(Undefined)

HandleDeleteSession(sessionId) == MapHas(sessions, sessionId) /\ DeleteSession(sessionId)

HandleRenameSession(sessionId, newName) ==
  MapHas(sessions, sessionId) /\ RenameSession(sessionId, newName)

\* the answers of the backend while the session controls are looked at: a message with text
PanelResponses ==
  {[status |-> 200, body |-> "choices", message |-> AssistantMessage(TRUE, <<>>)]}

\* turns of plain questions, the backend answering or the network failing, and the
\* session controls used at any time
NextPanel ==
  \/ \E input \in {[requiresSelection |-> FALSE, shouldForceToolCall |-> FALSE]} : HandleSend(input)
  \/ Render
  \/ \E selection \in {"text"} : ContextGathered(selection)
  \/ ChatReturns
  \/ (tpc = "chat" /\ \E resp \in PanelResponses : FetchResolves(resp))
  \/ (tpc = "chat" /\ BodyRead)
  \/ (tpc = "chat" /\ \E err \in {[name |-> "TypeError", message |-> "cancelled by the host"]} :
                        FirstFetchRejects(err))
  \/ \E id \in IdInputs : HandleSelectSession(id)
  \/ HandleNewSession
  \/ \E id \in IdInputs : HandleDeleteSession(id)
  \/ \E id \in IdInputs : HandleRenameSession(id, "A")

\* what the turn has appended is in the histories of the session that was active when
\* the turn started
TurnInItsSession ==
  /\ MapHas(sessions, turn.session)
  /\ LET s == MapGet(sessions, turn.session)
     IN /\ \A i \in 1..Len(turn.chat) :
             \E j \in 1..Len(s.messages) : s.messages[j] = turn.chat[i].msg
        /\ \A i \in 1..Len(turn.display) :
             \E j \in 1..Len(s.displayMessages) : s.displayMessages[j] = turn.display[i].msg

\* C22: while a turn is in flight no session-management action (create, rename, delete,
\* switch, clear) mutates the Session Store, so every message a turn appends lands in
\* the session that was active when the turn started.
C22_NoSessionActionInFlight ==
  [][tpc # "idle" => (ops' = ops /\ TurnInItsSession')]_vars

\* the user switched to the other session while the request was in flight: the
\* question is in session 1, the answer in session 2
C22_Witness ==
  /\ turn.ended = "text"
  /\ turn.session = 1
  /\ getActiveSession(Cur).value = 2
  /\ ret.op = "setActiveSession"
  /\ Len(turn.chat) = 2
  /\ \E j \in 1..Len(MapGet(sessions, 1).messages) :
       MapGet(sessions, 1).messages[j] = turn.chat[1].msg
  /\ \A j \in 1..Len(MapGet(sessions, 1).messages) :
       MapGet(sessions, 1).messages[j] # turn.chat[2].msg
  /\ \E j \in 1..Len(MapGet(sessions, 2).messages) :
       MapGet(sessions, 2).messages[j] = turn.chat[2].msg

(***************************************************************************)
(* Specifications                                                          *)
(***************************************************************************)
\* no sendChat call made, no tool batch executed, no turn started yet
InitRest == InitChat /\ InitExec /\ InitTurn

\* no helper call is looked at
InitHelpers == InitBridge /\ InitBuilder

\* the stores the add-in can start with
InitStoreSpec == InitStore /\ InitRest /\ InitHelpers

\* the store of a first start
InitChatSpec ==
  InitStoreFrom({[data |-> NoData, active |-> NULL]}, {"none"}) /\ InitRest /\ InitHelpers

\* the store of a first start
InitExecSpec ==
  InitStoreFrom({[data |-> NoData, active |-> NULL]}, {"none"}) /\ InitRest /\ InitHelpers

\* a store whose session is one message short of the history limit
InitTurnSpec ==
  /\ InitStoreFrom({[data |-> SavedList(<<SavedSession(1, 0, MAX_MESSAGES_PER_SESSION - 1,
                                                       MAX_MESSAGES_PER_SESSION)>>),
                     active |-> 1]}, {"none"})
  /\ InitRest
  /\ InitHelpers

\* the first start, and one buildUserMessage call to look at
InitBuilderSpec ==
  /\ InitStoreFrom({[data |-> NoData, active |-> NULL]}, {"none"})
  /\ InitRest
  /\ InitBridge
  /\ InitBuilderArgs

\* the first start, and a document in one of its tracking modes
InitBridgeSpec ==
  /\ InitStoreFrom({[data |-> NoData, active |-> NULL]}, {"none"})
  /\ InitRest
  /\ InitBridgeDocs
  /\ InitBuilder

\* the Session Store under every sequence of at most MaxOps operations
SpecStore == InitStoreSpec /\ [][NextStore]_vars

\* one sendChat call, with the timeout, the caller's abort and the network
\* interleaved; the Session Store is not touched
SpecChat == InitChatSpec /\ [][NextChat]_vars

\* one executeToolCalls batch of at most MaxCalls calls
SpecExec == InitExecSpec /\ [][NextExec]_vars

\* at most MaxTurns turns of the chat panel, with submits, cancels, the timeout,
\* the network and the Document Adapter interleaved
SpecTurn == InitTurnSpec /\ [][NextTurn]_vars

\* a store of two sessions, the first one active
InitPanelSpec ==
  /\ InitStoreFrom({[data |-> SavedList(<<SavedSession(1, 0, 1, 1), SavedSession(2, 0, 0, 0)>>),
                     active |-> 1]}, {"none"})
  /\ InitRest
  /\ InitHelpers

\* the chat panel with its session controls: at most MaxOps uses of the controls,
\* before, during and after the turns
SpecPanel == InitPanelSpec /\ [][NextPanel]_vars

\* buildUserMessage applied to every combination of its arguments
SpecBuilder == InitBuilderSpec /\ [][NextBuilder]_vars

\* replaceSelection calls, each context.sync() resolving or rejecting
SpecBridge == InitBridgeSpec /\ [][NextBridge]_vars

====
